---- MODULE Spec2Model ----
(***************************************************************************)
(* Model of the audio-mixer server: the marker validation of               *)
(* shared/schema.ts, the in-memory storage of server/storage.ts, the       *)
(* Express handlers and the segment/join pipeline of server/routes.ts,     *)
(* and the stand-alone process-upload function.                            *)
(*                                                                         *)
(* Time is counted in tenths of a second (TenthsPerSecond units per second), so that *)
(* marker timestamps in whole seconds and crossfade durations from 0.1 s   *)
(* are both integers.  Audio bytes are abstracted: the bytes of an asset   *)
(* are named by the asset id, an engine artifact by its duration.          *)
(*                                                                         *)
(* Node runs one callback at a time and drains the promise continuations   *)
(* it queued before it takes the next I/O callback or request.  Each       *)
(* action below is one synchronous run of code between two awaits; the     *)
(* variable turn names the continuation that must run next, and is Loop    *)
(* when the event loop is free to take a request or an I/O completion.     *)
(***************************************************************************)
EXTENDS Integers, Sequences, FiniteSets, TLC

\* ---------------------------------------------------------------- bounds
MaxTime == 3
MaxMarkers == 4
MaxJobs == 2
MaxAssets == 1

\* ------------------------------------------------------ program constants
TenthsPerSecond == 10
MaxUploadSeconds == 3600
CrossfadeMinTenths == 1
CrossfadeMaxSeconds == 5
CrossfadeDefaultTenths == 10
UploadCrossfadeMaxSeconds == 10
DefaultSegmentSeconds == 60

Null == "null"
\* What a Map lookup or a find yields for a missing key; every record and
\* buffer of the model is a record, so it compares with each of them.
Undefined == [undefined |-> TRUE]
\* An optional number: Absent, or << v >>.
Absent == << >>

\* ------------------------------------------------------- shared/schema.ts
\* markerSchema: timestamp >= 0, order an integer >= 0.  The result is the
\* list of issue messages zod collects for one marker, in field order.
markerSchema(m) ==
    (IF m.timestamp >= 0 THEN << >> ELSE << "Timestamp must be non-negative" >>)
    \o (IF m.order >= 0 THEN << >> ELSE << "Number must be greater than or equal to 0" >>)

\* InsertByTimestamp comparing the order fields.
RECURSIVE InsertByOrder(_, _)
InsertByOrder(m, sorted) ==
    IF sorted = << >> THEN << m >>
    ELSE IF m.order < Head(sorted).order THEN << m >> \o sorted
    ELSE << Head(sorted) >> \o InsertByOrder(m, Tail(sorted))

RECURSIVE InsertByTimestamp(_, _)
InsertByTimestamp(m, sorted) ==
    IF sorted = << >> THEN << m >>
    ELSE IF m.timestamp < Head(sorted).timestamp THEN << m >> \o sorted
    ELSE << Head(sorted) >> \o InsertByTimestamp(m, Tail(sorted))

\* A sort that leaves the markers as they were submitted.
SortKeepsSubmittedOrder(markers) == markers

\* [...markers].sort((a, b) => a.timestamp - b.timestamp): a stable sort, so
\* markers of equal timestamp keep their submitted order.
RECURSIVE SortByTimestamp(_)
SortByTimestamp(markers) ==
    IF markers = << >> THEN << >>
    ELSE InsertByTimestamp(markers[Len(markers)],
                           SortByTimestamp(SubSeq(markers, 1, Len(markers) - 1)))

\* PairsValid reading the pairs in the submitted order, without the sort.
PairsValidSubmittedOrder(markers) ==
    \A k \in 0 .. ((Len(markers) + 1) \div 2) - 1 :
        /\ 2 * k + 2 <= Len(markers)
        /\ markers[2 * k + 1].timestamp < markers[2 * k + 2].timestamp

\* The second refinement of markerListSchema: the loop over i = 0, 2, 4, ...
\* of the sorted list; sorted[i + 1] is undefined past the end.
PairsValid(markers) ==
    LET sorted == SortByTimestamp(markers)
    IN \A k \in 0 .. ((Len(sorted) + 1) \div 2) - 1 :
          /\ 2 * k + 2 <= Len(sorted)
          /\ sorted[2 * k + 1].timestamp < sorted[2 * k + 2].timestamp

RECURSIVE ElementIssues(_)
ElementIssues(markers) ==
    IF markers = << >> THEN << >>
    ELSE markerSchema(Head(markers)) \o ElementIssues(Tail(markers))

\* markerListSchema without its first refinement, the even count.
markerListSchemaNoEvenCheck(markers) ==
    (IF Len(markers) >= 2 THEN << >> ELSE << "At least two markers are required" >>)
    \o ElementIssues(markers)
    \o (IF PairsValid(markers) THEN << >>
        ELSE << "Each pair of markers must have start time less than end time" >>)

\* markerListSchema: the issues in the order zod reports them: the array's
\* minimum length, the elements, then the two refinements (which run although
\* earlier checks failed, since those only mark the value dirty).
markerListSchema(markers) ==
    (IF Len(markers) >= 2 THEN << >> ELSE << "At least two markers are required" >>)
    \o ElementIssues(markers)
    \o (IF Len(markers) % 2 = 0 THEN << >>
        ELSE << "Even number of markers required - each pair creates one segment" >>)
    \o (IF PairsValid(markers) THEN << >>
        ELSE << "Each pair of markers must have start time less than end time" >>)

CrossfadeMaxTenths == CrossfadeMaxSeconds * TenthsPerSecond

\* z.number().min(0.1).max(5) on a present crossfadeDuration.
crossfadeDurationIssues(cf) ==
    IF cf = Absent THEN << >>
    ELSE IF cf[1] < CrossfadeMinTenths THEN << "Number must be greater than or equal to 0.1" >>
    ELSE IF cf[1] > CrossfadeMaxTenths THEN << "Number must be less than or equal to 5" >>
    ELSE << >>

\* z.enum(["direct", "crossfade"]): zod's message names the value received.
outputModeIssues(mode) ==
    IF mode \in {"direct", "crossfade"} THEN << >>
    ELSE << "Invalid enum value. Expected 'direct' | 'crossfade', received '"
            \o mode \o "'" >>

\* processAudioSchema.parse(req.body): the issues of the fields in key order.
processAudioSchema(body) ==
    markerListSchema(body.markers)
    \o outputModeIssues(body.outputMode)
    \o crossfadeDurationIssues(body.crossfadeDuration)

\* previewAudioSchema.parse(req.body): no outputMode; crossfadeDuration
\* defaults to 1.0 when absent.
previewAudioSchema(body) ==
    markerListSchema(body.markers)
    \o crossfadeDurationIssues(body.crossfadeDuration)

previewCrossfadeDuration(body) ==
    IF body.crossfadeDuration = Absent THEN CrossfadeDefaultTenths
    ELSE body.crossfadeDuration[1]

\* ------------------------------------------------------------------ state
VARIABLES
    audioFiles,      \* MemStorage.audioFiles: asset id -> record
    audioFileData,   \* MemStorage.audioFileData: asset id -> bytes
    processingJobs,  \* MemStorage.processingJobs: job id -> record
    jobOutputs,      \* MemStorage.jobOutputs: job id -> output bytes
    tasks,           \* job id -> its processAudioAsyncToMemory call: the arguments,
                     \* where it stands, its processSegmentsToBuffer call (pl);
                     \* and, for the record, the jobs that were completed when it
                     \* was submitted and the output it produced
    req,             \* the request whose Express handler is running
    preview,         \* the POST /api/preview request in flight
    pu,              \* the process-upload invocation in flight
    turn,            \* Loop, or the continuation the event loop runs next
    delivered,       \* job id -> number of download responses that carried its output
    escaped,         \* jobs whose task rejected with an error nobody caught
    savedMarkers,    \* MemStorage.markers: asset id -> the marker list saved last
    client           \* the MarkerManager component of one browser: where its
                     \* handleGenerateAudio stands, isGenerating, generatedJobId

vars == << audioFiles, audioFileData, processingJobs, jobOutputs, tasks, req,
           preview, pu, turn, delivered, escaped, savedMarkers, client >>

Loop == << "loop" >>
NoRequest == [kind |-> "none"]

JobIds == 1 .. MaxJobs

\* ------------------------------------------------------ server/storage.ts
\* randomUUID(): an id no record has yet.
NextId(map) == Cardinality(DOMAIN map) + 1

createAudioFile(files, insertAudioFile) ==
    files @@ (NextId(files) :> [filename |-> insertAudioFile.filename,
                                duration |-> insertAudioFile.duration,
                                format |-> insertAudioFile.format,
                                uploadedAt |-> "date"])

getAudioFile(files, id) == IF id \in DOMAIN files THEN files[id] ELSE Undefined

createProcessingJob(jobs, insertJob) ==
    jobs @@ (NextId(jobs) :> [audioFileId |-> insertJob.audioFileId,
                              outputMode |-> insertJob.outputMode,
                              crossfadeDuration |-> insertJob.crossfadeDuration,
                              outputFilename |-> insertJob.outputFilename,
                              status |-> insertJob.status,
                              createdAt |-> "date",
                              completedAt |-> Null])

getProcessingJob(jobs, id) == IF id \in DOMAIN jobs THEN jobs[id] ELSE Undefined

\* updateProcessingJobStatus stamping completedAt at every update.
updateStampsEveryStatus(jobs, id, status) ==
    IF id \notin DOMAIN jobs THEN jobs
    ELSE [jobs EXCEPT ![id] =
            [@ EXCEPT !.status = status,
                      !.outputFilename = Null,
                      !.completedAt = "date"]]

\* updateProcessingJobStatus(id, status) as routes.ts calls it, without an
\* outputFilename: an unknown id changes nothing.
updateProcessingJobStatus(jobs, id, status) ==
    IF id \notin DOMAIN jobs THEN jobs
    ELSE [jobs EXCEPT ![id] =
            [@ EXCEPT !.status = status,
                      !.outputFilename = Null,
                      !.completedAt = IF status = "completed" THEN "date" ELSE @]]

setAudioBytes(data, audioFileId, bytes) ==
    [x \in DOMAIN data \cup {audioFileId} |->
        IF x = audioFileId THEN bytes ELSE data[x]]

getAudioBytes(data, audioFileId) ==
    IF audioFileId \in DOMAIN data THEN data[audioFileId] ELSE Undefined

deleteAudioBytes(data, audioFileId) ==
    [x \in DOMAIN data \ {audioFileId} |-> data[x]]

setJobOutput(outputs, jobId, bytes) ==
    [x \in DOMAIN outputs \cup {jobId} |-> IF x = jobId THEN bytes ELSE outputs[x]]

getJobOutput(outputs, jobId) ==
    IF jobId \in DOMAIN outputs THEN outputs[jobId] ELSE Undefined

deleteJobOutput(outputs, jobId) ==
    [x \in DOMAIN outputs \ {jobId} |-> outputs[x]]

\* updateMarkers: the list saved for the asset is replaced by new records
\* (their random ids left out).
updateMarkers(store, audioFileId, markersData) ==
    [x \in DOMAIN store \cup {audioFileId} |->
        IF x = audioFileId
        THEN [i \in 1 .. Len(markersData) |->
                [audioFileId |-> audioFileId,
                 timestamp |-> markersData[i].timestamp,
                 order |-> markersData[i].order]]
        ELSE store[x]]

EmptyMap == [x \in {} |-> Null]

Init ==
    /\ audioFiles = EmptyMap
    /\ audioFileData = EmptyMap
    /\ processingJobs = EmptyMap
    /\ jobOutputs = EmptyMap
    /\ tasks = EmptyMap
    /\ req = NoRequest
    /\ preview = NoRequest
    /\ pu = NoRequest
    /\ turn = Loop
    /\ delivered = EmptyMap
    /\ escaped = {}
    /\ savedMarkers = EmptyMap
    /\ client = [pc |-> "idle", isGenerating |-> FALSE, generatedJobId |-> Absent]

\* ------------------------------------------------------- segment building
\* BuildSegments pairing each marker with the next one.
RECURSIVE BuildSegmentsAdjacent(_)
BuildSegmentsAdjacent(sortedMarkers) ==
    IF sortedMarkers = << >> THEN << >>
    ELSE IF Len(sortedMarkers) = 1 THEN << >>
    ELSE (IF sortedMarkers[1].timestamp < sortedMarkers[2].timestamp
          THEN << [startTime |-> sortedMarkers[1].timestamp,
                   endTime |-> sortedMarkers[2].timestamp] >>
          ELSE << >>)
         \o BuildSegmentsAdjacent(Tail(sortedMarkers))

\* The pairing loop of processAudioAsyncToMemory and generatePreviewBuffer:
\* for i = 0, 2, 4, ... a pair whose end is missing or whose start is not
\* before its end is skipped.
RECURSIVE BuildSegments(_)
BuildSegments(sortedMarkers) ==
    IF sortedMarkers = << >> THEN << >>
    ELSE IF Len(sortedMarkers) = 1 THEN << >>
    ELSE (IF sortedMarkers[1].timestamp < sortedMarkers[2].timestamp
          THEN << [startTime |-> sortedMarkers[1].timestamp,
                   endTime |-> sortedMarkers[2].timestamp] >>
          ELSE << >>)
         \o BuildSegments(SubSeq(sortedMarkers, 3, Len(sortedMarkers)))

\* ----------------------------------------------------- the media engine
\* The engine is external.  An invocation that succeeds is taken to yield
\* what it was asked for: an extract yields setDuration seconds, a concat
\* the sum of the streams it names, and an acrossfade link of a and b over d
\* yields a + b - d.
\* ExtractCall reading the first segment whatever the index.
ExtractCallFirstSegment(segments, i) ==
    [op |-> "extract", index |-> i - 1,
     startTime |-> segments[1].startTime,
     duration |-> segments[1].endTime - segments[1].startTime]

ExtractCall(segments, i) ==
    [op |-> "extract", index |-> i - 1,
     startTime |-> segments[i].startTime,
     duration |-> segments[i].endTime - segments[i].startTime]

\* The labels of a filter graph: `[${i}:a]` is the audio of input i of
\* the command, `[a0${k}]` the output of link k of the crossfade chain.
StreamLabel(i) == ToString(i) \o ":a"

ChainLabel(k) == "a0" \o ToString(k)

\* ConcatCall taking the segment files last to first.
ConcatCallReversed(n) ==
    [op |-> "concat", n |-> n,
     inputs |-> [i \in 1 .. n |-> n - i],
     filter |-> << [streams |-> [i \in 1 .. n |-> StreamLabel(i - 1)], out |-> "out"] >>,
     map |-> "out"]

\* Lines 368-376: the command takes every segment file as an input, in the
\* order of segmentFiles, and one concat filter over all its inputs.
ConcatCall(n) ==
    [op |-> "concat", n |-> n,
     inputs |-> [i \in 1 .. n |-> i - 1],
     filter |-> << [streams |-> [i \in 1 .. n |-> StreamLabel(i - 1)], out |-> "out"] >>,
     map |-> "out"]

\* filterChain with every link fading two neighbouring segment files.
filterChainNeighbours(n, crossfadeDuration) ==
    [k \in 1 .. n - 1 |->
        [first |-> StreamLabel(k - 1), second |-> StreamLabel(k),
         d |-> crossfadeDuration, out |-> ChainLabel(k)]]

\* Lines 384-388: the links of the filter chain, link i (from 0) at
\* position i + 1.
filterChain(n, crossfadeDuration) ==
    [k \in 1 .. n - 1 |->
        IF k = 1
        THEN [first |-> StreamLabel(0), second |-> StreamLabel(1),
              d |-> crossfadeDuration, out |-> ChainLabel(1)]
        ELSE [first |-> ChainLabel(k - 1), second |-> StreamLabel(k),
              d |-> crossfadeDuration, out |-> ChainLabel(k)]]

\* Lines 382-393: the same inputs, the acrossfade chain, and the label mapped
\* to the output file.
CrossfadeCall(n, crossfadeDuration) ==
    [op |-> "crossfade", n |-> n, d |-> crossfadeDuration,
     inputs |-> [i \in 1 .. n |-> i - 1],
     filter |-> filterChain(n, crossfadeDuration),
     map |-> ChainLabel(n - 1)]

\* JoinCall taking the concat branch whatever the mode.
JoinCallAlwaysConcat(segments, outputMode, crossfadeDuration) ==
    ConcatCall(Len(segments))

\* The join of processSegmentsToBuffer for other than one segment: one
\* concat over all segment files in direct mode, else one crossfade chain.
JoinCall(segments, outputMode, crossfadeDuration) ==
    IF outputMode = "direct" THEN ConcatCall(Len(segments))
    ELSE CrossfadeCall(Len(segments), crossfadeDuration)

EngineExtract(call) == call.duration

\* The streams a command starts from: input i is the file given i-th.
InputStreams(files, call) ==
    [l \in { StreamLabel(i - 1) : i \in 1 .. Len(call.inputs) } |->
        files[call.inputs[CHOOSE i \in 1 .. Len(call.inputs) : StreamLabel(i - 1) = l] + 1]]

RECURSIVE ConcatDuration(_, _)
ConcatDuration(env, streams) ==
    IF streams = << >> THEN 0
    ELSE env[Head(streams)] + ConcatDuration(env, Tail(streams))

\* The engine runs the links in turn: a link of a and b over d yields
\* a + b - d under its output label.
RECURSIVE CrossfadeChain(_, _)
CrossfadeChain(env, links) ==
    IF links = << >> THEN env
    ELSE LET link == Head(links)
         IN CrossfadeChain((link.out :> env[link.first] + env[link.second] - link.d) @@ env,
                           Tail(links))

\* The duration of the file the join call writes from the segment files:
\* that of the stream under the mapped label.
EngineJoin(files, call) ==
    LET env == InputStreams(files, call)
        streams == IF call.op = "concat"
                   THEN (call.filter[1].out :> ConcatDuration(env, call.filter[1].streams)) @@ env
                   ELSE CrossfadeChain(env, call.filter)
    IN IF call.map \in DOMAIN streams THEN streams[call.map] ELSE 0

\* ------------------------------------------------ processSegmentsToBuffer
\* A call of processSegmentsToBuffer: pc names the I/O it is waiting for;
\* created holds the temp paths of the call that exist on disk ("input" the
\* input copy, "segments" the segment directory with the segment files in
\* it, "out" the output file), segmentFiles the durations of the segment
\* files written, out the duration of the output file.  cleanupPaths is the
\* list the finally block walks, k the position of the path it is at, and
\* recursive the option it has chosen for that path's fs.rm; cleanupError
\* records that a path that exists was passed over or that its fs.rm threw.
StartPipeline(segments, outputMode, crossfadeDuration) ==
    [pc |-> "mkdirRoot", segments |-> segments, outputMode |-> outputMode,
     crossfadeDuration |-> crossfadeDuration, i |-> 0, calls |-> << >>,
     created |-> {}, segmentFiles |-> << >>, out |-> Absent,
     data |-> Undefined, error |-> FALSE, failedAt |-> "none",
     cleanupPaths |-> << >>, k |-> 0, recursive |-> FALSE,
     cleanupError |-> FALSE]

\* for (const p of cleanupPaths): the loop goes on to the first fs.stat of
\* the next path, or the call is over.
CleanupNext(pl) ==
    IF pl.k < Len(pl.cleanupPaths)
    THEN [pl EXCEPT !.pc = "cleanupStat", !.k = pl.k + 1]
    ELSE [pl EXCEPT !.pc = "returned"]

\* Control reaches the finally block, by return or by throw.
EnterFinally(pl) == CleanupNext([pl EXCEPT !.k = 0])

\* An error thrown inside the try block: the finally block runs first.
ThrowInTry(pl) == EnterFinally([pl EXCEPT !.error = TRUE, !.failedAt = pl.pc])

\* The body of the finally loop for the path at k, resumed after one of its
\* three awaits: the fs.stat that tells whether the path exists (an error
\* counts as "does not"), the fs.stat that tells whether it is a directory
\* (an error counts as "is not"), the fs.rm.  A directory is removed only by
\* the recursive fs.rm; what fs.rm throws is swallowed, path by path.
CleanupStep(pl, ok) ==
    LET p == pl.cleanupPaths[pl.k]
    IN CASE pl.pc = "cleanupStat" ->
                IF ok /\ p \in pl.created THEN [pl EXCEPT !.pc = "cleanupStatKind"]
                ELSE CleanupNext([pl EXCEPT !.cleanupError = @ \/ p \in pl.created])
         [] pl.pc = "cleanupStatKind" ->
                [pl EXCEPT !.pc = "cleanupRm", !.recursive = ok /\ p = "segments"]
         [] pl.pc = "cleanupRm" ->
                IF ok /\ (p # "segments" \/ pl.recursive)
                THEN CleanupNext([pl EXCEPT !.created = @ \ {p}])
                ELSE CleanupNext([pl EXCEPT !.cleanupError = TRUE])
         [] OTHER -> pl

\* An error thrown before the try block (mkdir of the temp root, the write
\* of the input copy): the call rejects at once.
ThrowBeforeTry(pl) == [pl EXCEPT !.pc = "returned", !.error = TRUE, !.failedAt = pl.pc]

Created(pl, path) == [pl EXCEPT !.created = @ \cup {path}]

\* cleanupPaths.push(path)
PushCleanup(pl, path) == [pl EXCEPT !.cleanupPaths = Append(@, path)]

\* A write that failed has, or has not (left), opened its file before.
LeftBehind(pl, path, left) == IF left THEN Created(pl, path) ELSE pl

IssueJoin(pl) ==
    [PushCleanup(pl, "out") EXCEPT
               !.pc = "join",
               !.calls = Append(@, JoinCall(pl.segments, pl.outputMode,
                                            pl.crossfadeDuration))]

IssueExtract(pl, i, pc) ==
    [pl EXCEPT !.pc = pc, !.i = i,
               !.calls = Append(@, ExtractCall(pl.segments, i))]

\* PipelineStep with the join's error event ignored.
PipelineStepIgnoresJoinError(pl, ok, left) ==
    CASE pl.pc = "mkdirRoot" ->
            IF ok THEN [pl EXCEPT !.pc = "writeInput"] ELSE ThrowBeforeTry(pl)
      [] pl.pc = "writeInput" ->
            IF ~ok THEN ThrowBeforeTry(LeftBehind(pl, "input", left))
            ELSE LET written == PushCleanup(Created(pl, "input"), "input")
                 IN IF Len(pl.segments) = 1
                    THEN IssueExtract(PushCleanup(written, "out"), 1, "extractSingle")
                    ELSE [written EXCEPT !.pc = "mkdirSegments"]
      [] pl.pc = "extractSingle" ->
            IF ok THEN [Created(pl, "out") EXCEPT
                            !.pc = "readOutput",
                            !.out = << EngineExtract(pl.calls[Len(pl.calls)]) >>]
            ELSE ThrowInTry(LeftBehind(pl, "out", left))
      [] pl.pc = "mkdirSegments" ->
            IF ~ok THEN ThrowInTry(pl)
            ELSE LET made == PushCleanup(Created(pl, "segments"), "segments")
                 IN IF Len(pl.segments) > 0 THEN IssueExtract(made, 1, "extract")
                    ELSE IssueJoin(made)
      [] pl.pc = "extract" ->
            IF ~ok THEN ThrowInTry(pl)
            ELSE LET got == [pl EXCEPT !.segmentFiles =
                                Append(@, EngineExtract(pl.calls[Len(pl.calls)]))]
                 IN IF pl.i < Len(pl.segments) THEN IssueExtract(got, pl.i + 1, "extract")
                    ELSE IssueJoin(got)
      [] pl.pc = "join" ->
            IF ok THEN [Created(pl, "out") EXCEPT
                            !.pc = "readOutput",
                            !.out = << EngineJoin(pl.segmentFiles,
                                                  pl.calls[Len(pl.calls)]) >>]
            ELSE [Created(pl, "out") EXCEPT !.pc = "readOutput", !.failedAt = "join",
                                           !.out = << 0 >>]
      [] pl.pc = "readOutput" ->
            IF ~ok THEN ThrowInTry(pl)
            ELSE EnterFinally([pl EXCEPT !.data = [duration |-> pl.out[1]]])
      [] pl.pc \in {"cleanupStat", "cleanupStatKind", "cleanupRm"} ->
            CleanupStep(pl, ok)
      [] OTHER -> pl

\* The continuation of processSegmentsToBuffer after the I/O it awaited has
\* signalled success (ok) or an error; every await of the call, those of the
\* finally block included, is one step.
PipelineStep(pl, ok, left) ==
    CASE pl.pc = "mkdirRoot" ->
            IF ok THEN [pl EXCEPT !.pc = "writeInput"] ELSE ThrowBeforeTry(pl)
      [] pl.pc = "writeInput" ->
            IF ~ok THEN ThrowBeforeTry(LeftBehind(pl, "input", left))
            ELSE LET written == PushCleanup(Created(pl, "input"), "input")
                 IN IF Len(pl.segments) = 1
                    THEN IssueExtract(PushCleanup(written, "out"), 1, "extractSingle")
                    ELSE [written EXCEPT !.pc = "mkdirSegments"]
      [] pl.pc = "extractSingle" ->
            IF ok THEN [Created(pl, "out") EXCEPT
                            !.pc = "readOutput",
                            !.out = << EngineExtract(pl.calls[Len(pl.calls)]) >>]
            ELSE ThrowInTry(LeftBehind(pl, "out", left))
      [] pl.pc = "mkdirSegments" ->
            IF ~ok THEN ThrowInTry(pl)
            ELSE LET made == PushCleanup(Created(pl, "segments"), "segments")
                 IN IF Len(pl.segments) > 0 THEN IssueExtract(made, 1, "extract")
                    ELSE IssueJoin(made)
      [] pl.pc = "extract" ->
            IF ~ok THEN ThrowInTry(pl)
            ELSE LET got == [pl EXCEPT !.segmentFiles =
                                Append(@, EngineExtract(pl.calls[Len(pl.calls)]))]
                 IN IF pl.i < Len(pl.segments) THEN IssueExtract(got, pl.i + 1, "extract")
                    ELSE IssueJoin(got)
      [] pl.pc = "join" ->
            IF ok THEN [Created(pl, "out") EXCEPT
                            !.pc = "readOutput",
                            !.out = << EngineJoin(pl.segmentFiles,
                                                  pl.calls[Len(pl.calls)]) >>]
            ELSE ThrowInTry(LeftBehind(pl, "out", left))
      [] pl.pc = "readOutput" ->
            IF ~ok THEN ThrowInTry(pl)
            ELSE EnterFinally([pl EXCEPT !.data = [duration |-> pl.out[1]]])
      [] pl.pc \in {"cleanupStat", "cleanupStatKind", "cleanupRm"} ->
            CleanupStep(pl, ok)
      [] OTHER -> pl

PipelineWaiting(pl) == pl.pc \notin {"returned"}

\* -------------------------------------------------------- POST /api/upload
\* The handler, taken at the I/O completion that ends its probe: what it
\* stores is decided there.  file.probe is ffprobe's error or the duration.
UploadResponse(file) ==
    IF ~file.present THEN [status |-> 400, message |-> "No audio file provided"]
    ELSE IF file.probe = "error" THEN [status |-> 500, message |-> "Upload failed"]
    \* With multer's memory storage req.file.path is undefined, so the
    \* fs.unlink(req.file.path) of the too-long branch throws.
    ELSE IF file.duration > MaxUploadSeconds * TenthsPerSecond
    THEN [status |-> 500, message |-> "Upload failed"]
    ELSE [status |-> 200, message |-> "ok"]

PostUpload(file) ==
    /\ turn = Loop
    /\ req = NoRequest
    /\ Cardinality(DOMAIN audioFiles) < MaxAssets
    /\ LET res == UploadResponse(file)
           id == NextId(audioFiles)
       IN /\ req' = [kind |-> "upload", pc |-> "responded", body |-> file, res |-> res]
          /\ IF res.status = 200
             THEN /\ audioFiles' = createAudioFile(audioFiles,
                                      [filename |-> file.originalname,
                                       duration |-> file.duration,
                                       format |-> file.format])
                  /\ audioFileData' = setAudioBytes(audioFileData, id, [file |-> id])
             ELSE UNCHANGED << audioFiles, audioFileData >>
    /\ turn' = << "req" >>
    /\ UNCHANGED << processingJobs, jobOutputs, tasks, preview, pu, delivered, escaped >>
    /\ UNCHANGED << savedMarkers, client >>

\* ------------------------------------------------------- POST /api/process
\* Lines 175-178: parse the body; a ZodError is answered 400 with the first
\* issue's message; else the asset is looked up and the handler awaits.
PostProcess(body) ==
    /\ turn = Loop
    /\ req = NoRequest
    /\ Cardinality(DOMAIN processingJobs) < MaxJobs
    /\ LET issues == processAudioSchema(body)
       IN req' = IF issues # << >>
                 THEN [kind |-> "process", pc |-> "responded", body |-> body,
                       res |-> [status |-> 400, message |-> issues[1]]]
                 ELSE [kind |-> "process", pc |-> "gotAudioFile", body |-> body,
                       audioFile |-> getAudioFile(audioFiles, body.audioFileId)]
    /\ turn' = << "req" >>
    /\ UNCHANGED << audioFiles, audioFileData, processingJobs, jobOutputs, tasks,
                    preview, pu, delivered, escaped >>
    /\ UNCHANGED << savedMarkers, client >>

RECURSIVE MaxTimestamp(_)
MaxTimestamp(markers) ==
    IF Len(markers) = 1 THEN markers[1].timestamp
    ELSE LET rest == MaxTimestamp(Tail(markers))
         IN IF markers[1].timestamp > rest THEN markers[1].timestamp ELSE rest

\* crossfadeDuration || 1.0
CrossfadeOrDefault(cf) ==
    IF cf = Absent THEN CrossfadeDefaultTenths
    ELSE IF cf[1] = 0 THEN CrossfadeDefaultTenths
    ELSE cf[1]

\* ProcessCreateJob creating the job record before the duration check.
ProcessCreateJobFirst ==
    /\ turn = << "req" >>
    /\ req.kind = "process"
    /\ req.pc = "gotAudioFile"
    /\ IF req.audioFile = Undefined
       THEN /\ req' = [kind |-> "process", pc |-> "responded", body |-> req.body,
                       res |-> [status |-> 404, message |-> "Audio file not found"]]
            /\ UNCHANGED << processingJobs, delivered >>
       ELSE /\ processingJobs' = createProcessingJob(processingJobs,
                   [audioFileId |-> req.body.audioFileId,
                    outputMode |-> req.body.outputMode,
                    crossfadeDuration |-> Absent,
                    status |-> "pending",
                    outputFilename |-> Null])
            /\ delivered' = delivered @@ (NextId(processingJobs) :> 0)
            /\ req' = IF MaxTimestamp(req.body.markers) > req.audioFile.duration
                      THEN [kind |-> "process", pc |-> "responded", body |-> req.body,
                            res |-> [status |-> 400,
                                     message |-> "Some markers exceed audio duration"]]
                      ELSE [kind |-> "process", pc |-> "created", body |-> req.body,
                            jobId |-> NextId(processingJobs)]
    /\ UNCHANGED << audioFiles, audioFileData, jobOutputs, tasks, preview, pu,
                    turn, escaped >>
    /\ UNCHANGED << savedMarkers, client >>

\* Lines 179-196: unknown asset 404, marker beyond the duration 400, else
\* the job record is created with status pending.
ProcessCreateJob ==
    /\ turn = << "req" >>
    /\ req.kind = "process"
    /\ req.pc = "gotAudioFile"
    /\ IF req.audioFile = Undefined
       THEN /\ req' = [kind |-> "process", pc |-> "responded", body |-> req.body,
                       res |-> [status |-> 404, message |-> "Audio file not found"]]
            /\ UNCHANGED << processingJobs, delivered >>
       ELSE IF MaxTimestamp(req.body.markers) > req.audioFile.duration
       THEN /\ req' = [kind |-> "process", pc |-> "responded", body |-> req.body,
                       res |-> [status |-> 400,
                                message |-> "Some markers exceed audio duration"]]
            /\ UNCHANGED << processingJobs, delivered >>
       ELSE /\ processingJobs' = createProcessingJob(processingJobs,
                   [audioFileId |-> req.body.audioFileId,
                    outputMode |-> req.body.outputMode,
                    crossfadeDuration |->
                        IF req.body.outputMode = "crossfade"
                        THEN << CrossfadeOrDefault(req.body.crossfadeDuration) >>
                        ELSE Absent,
                    status |-> "pending",
                    outputFilename |-> Null])
            /\ delivered' = delivered @@ (NextId(processingJobs) :> 0)
            /\ req' = [kind |-> "process", pc |-> "created", body |-> req.body,
                       jobId |-> NextId(processingJobs)]
    /\ UNCHANGED << audioFiles, audioFileData, jobOutputs, tasks, preview, pu,
                    turn, escaped >>
    /\ UNCHANGED << savedMarkers, client >>

\* ProcessStartTask with the status update to processing left out.
ProcessStartTaskSkipsProcessing ==
    /\ turn = << "req" >>
    /\ req.kind = "process"
    /\ req.pc = "created"
    /\ tasks' = tasks @@ (req.jobId :>
                    [pc |-> "started",
                     audioFileId |-> req.body.audioFileId,
                     markers |-> req.body.markers,
                     outputMode |-> req.body.outputMode,
                     crossfadeDuration |-> CrossfadeOrDefault(req.body.crossfadeDuration),
                     completedBefore |->
                        {k \in DOMAIN processingJobs :
                            processingJobs[k].status = "completed"},
                     output |-> Undefined,
                     pl |-> Undefined])
    /\ req' = [kind |-> "process", pc |-> "responded", body |-> req.body,
               res |-> [status |-> 200, jobId |-> req.jobId]]
    /\ UNCHANGED << audioFiles, audioFileData, processingJobs, jobOutputs, preview,
                    pu, turn, delivered, escaped >>
    /\ UNCHANGED << savedMarkers, client >>

\* Lines 199-201: processAudioAsyncToMemory is called and runs up to its
\* first await, which is behind the status update to processing; then the
\* handler answers with the job id.
ProcessStartTask ==
    /\ turn = << "req" >>
    /\ req.kind = "process"
    /\ req.pc = "created"
    /\ processingJobs' = updateProcessingJobStatus(processingJobs, req.jobId, "processing")
    /\ tasks' = tasks @@ (req.jobId :>
                    [pc |-> "started",
                     audioFileId |-> req.body.audioFileId,
                     markers |-> req.body.markers,
                     outputMode |-> req.body.outputMode,
                     crossfadeDuration |-> CrossfadeOrDefault(req.body.crossfadeDuration),
                     completedBefore |->
                        {k \in DOMAIN processingJobs :
                            processingJobs[k].status = "completed"},
                     output |-> Undefined,
                     pl |-> Undefined])
    /\ req' = [kind |-> "process", pc |-> "responded", body |-> req.body,
               res |-> [status |-> 200, jobId |-> req.jobId]]
    /\ UNCHANGED << audioFiles, audioFileData, jobOutputs, preview, pu, turn,
                    delivered, escaped >>
    /\ UNCHANGED << savedMarkers, client >>

\* The handler's run ends; the continuations it queued run before the event
\* loop takes anything else: here the task of the job just started.
HandlerReturn ==
    /\ turn = << "req" >>
    /\ req.pc = "responded"
    /\ req' = NoRequest
    /\ turn' = IF \E j \in DOMAIN tasks : tasks[j].pc = "started"
               THEN << "task", CHOOSE j \in DOMAIN tasks : tasks[j].pc = "started" >>
               ELSE Loop
    /\ UNCHANGED << audioFiles, audioFileData, processingJobs, jobOutputs, tasks,
                    preview, pu, delivered, escaped >>
    /\ UNCHANGED << savedMarkers, client >>

\* ------------------------------------------------ processAudioAsyncToMemory
\* A catch block that marks every job failed.
catchFailsEveryJob(jobs, jobId) ==
    [jobs |-> [k \in DOMAIN jobs |-> [jobs[k] EXCEPT !.status = "failed"]],
     rethrown |-> FALSE]

\* A catch block that only logs the error.
catchLogsOnly(jobs, jobId) == [jobs |-> jobs, rethrown |-> FALSE]

\* The catch block: the error is logged and the job marked failed.
catchProcessingError(jobs, jobId) ==
    [jobs |-> updateProcessingJobStatus(jobs, jobId, "failed"), rethrown |-> FALSE]

TaskFail(j) ==
    LET caught == catchProcessingError(processingJobs, j)
    IN /\ processingJobs' = caught.jobs
       /\ escaped' = IF caught.rethrown THEN escaped \cup {j} ELSE escaped
       /\ tasks' = [tasks EXCEPT ![j] = [@ EXCEPT !.pc = "done", !.pl = Undefined]]
       /\ turn' = Loop
       /\ UNCHANGED << audioFileData, jobOutputs >>

\* Lines 280-305: the input bytes are fetched, the markers sorted and paired,
\* and processSegmentsToBuffer is called, which runs up to its first mkdir.
TaskBegin(j) ==
    /\ j \in DOMAIN tasks
    /\ turn = << "task", j >>
    /\ tasks[j].pc = "started"
    /\ LET inputBuffer == getAudioBytes(audioFileData, tasks[j].audioFileId)
           sortedMarkers == SortByTimestamp(tasks[j].markers)
       IN IF inputBuffer = Undefined \/ Len(sortedMarkers) % 2 # 0
          THEN TaskFail(j)
          ELSE /\ tasks' = [tasks EXCEPT ![j] =
                              [@ EXCEPT !.pc = "running",
                                        !.pl = StartPipeline(BuildSegments(sortedMarkers),
                                                             tasks[j].outputMode,
                                                             tasks[j].crossfadeDuration)]]
               /\ turn' = Loop
               /\ UNCHANGED << processingJobs, audioFileData, jobOutputs, escaped >>
    /\ UNCHANGED << audioFiles, req, preview, pu, delivered >>
    /\ UNCHANGED << savedMarkers, client >>

\* An I/O completion (a file operation or an engine run, ok or not) resumes
\* the job's processSegmentsToBuffer call.
TaskIO(j) ==
    /\ j \in DOMAIN tasks
    /\ turn = Loop
    /\ tasks[j].pc = "running"
    /\ PipelineWaiting(tasks[j].pl)
    /\ \E ok, left \in BOOLEAN :
          LET pl == PipelineStep(tasks[j].pl, ok, left)
          IN /\ tasks' = [tasks EXCEPT ![j].pl = pl]
             /\ turn' = IF pl.pc = "returned" THEN << "task", j >> ELSE Loop
    /\ UNCHANGED << audioFiles, audioFileData, processingJobs, jobOutputs, req,
                    preview, pu, delivered, escaped >>
    /\ UNCHANGED << savedMarkers, client >>

\* TaskSettle storing the output but leaving the status update out.
TaskSettleOutputOnly(j) ==
    /\ j \in DOMAIN tasks
    /\ turn = << "task", j >>
    /\ tasks[j].pc = "running"
    /\ ~PipelineWaiting(tasks[j].pl)
    /\ IF tasks[j].pl.error
       THEN TaskFail(j)
       ELSE /\ jobOutputs' = setJobOutput(jobOutputs, j, tasks[j].pl.data)
            /\ tasks' = [tasks EXCEPT ![j] =
                            [@ EXCEPT !.pc = "completed", !.pl = Undefined,
                                      !.output = tasks[j].pl.data]]
            /\ UNCHANGED << processingJobs, audioFileData, turn, escaped >>
    /\ UNCHANGED << audioFiles, req, preview, pu, delivered >>
    /\ UNCHANGED << savedMarkers, client >>

\* Lines 305-307 and 310-313: processSegmentsToBuffer has returned or thrown.
TaskSettle(j) ==
    /\ j \in DOMAIN tasks
    /\ turn = << "task", j >>
    /\ tasks[j].pc = "running"
    /\ ~PipelineWaiting(tasks[j].pl)
    /\ IF tasks[j].pl.error
       THEN TaskFail(j)
       ELSE /\ jobOutputs' = setJobOutput(jobOutputs, j, tasks[j].pl.data)
            /\ processingJobs' = updateProcessingJobStatus(processingJobs, j, "completed")
            /\ tasks' = [tasks EXCEPT ![j] =
                            [@ EXCEPT !.pc = "completed", !.pl = Undefined,
                                      !.output = tasks[j].pl.data]]
            /\ UNCHANGED << audioFileData, turn, escaped >>
    /\ UNCHANGED << audioFiles, req, preview, pu, delivered >>
    /\ UNCHANGED << savedMarkers, client >>

\* Line 309, behind the await of the status update: the input bytes go.
TaskDeleteInput(j) ==
    /\ j \in DOMAIN tasks
    /\ turn = << "task", j >>
    /\ tasks[j].pc = "completed"
    /\ audioFileData' = deleteAudioBytes(audioFileData, tasks[j].audioFileId)
    /\ tasks' = [tasks EXCEPT ![j].pc = "done"]
    /\ turn' = Loop
    /\ UNCHANGED << audioFiles, processingJobs, jobOutputs, req, preview, pu,
                    delivered, escaped >>
    /\ UNCHANGED << savedMarkers, client >>

\* -------------------------------------------------------- GET /api/jobs/:id
GetJob(id) ==
    /\ turn = Loop
    /\ req = NoRequest
    /\ LET job == getProcessingJob(processingJobs, id)
       IN req' = [kind |-> "poll", pc |-> "responded", id |-> id,
                  res |-> IF job = Undefined
                          THEN [status |-> 404, message |-> "Job not found"]
                          ELSE [status |-> 200, job |-> job]]
    /\ turn' = << "req" >>
    /\ UNCHANGED << audioFiles, audioFileData, processingJobs, jobOutputs, tasks,
                    preview, pu, delivered, escaped >>
    /\ UNCHANGED << savedMarkers, client >>

\* ----------------------------------------------- GET /api/jobs/:id/download
\* What the handler sends: 404 unless the job is completed and has output.
DownloadResponse(jobs, outputs, id) ==
    LET job == getProcessingJob(jobs, id)
    IN IF job = Undefined THEN [status |-> 404, message |-> "Processed file not found"]
       ELSE IF job.status # "completed"
       THEN [status |-> 404, message |-> "Processed file not found"]
       ELSE IF getJobOutput(outputs, id) = Undefined
       THEN [status |-> 404, message |-> "Output not found"]
       ELSE [status |-> 200, data |-> getJobOutput(outputs, id)]

\* A download that keeps the output.
DownloadKeepsOutput(outputs, id, res) == outputs

\* The output map after the handler: the output is deleted once sent.
DownloadOutputs(outputs, id, res) ==
    IF res.status = 200 THEN deleteJobOutput(outputs, id) ELSE outputs

GetDownload(id) ==
    /\ turn = Loop
    /\ req = NoRequest
    /\ LET res == DownloadResponse(processingJobs, jobOutputs, id)
       IN /\ req' = [kind |-> "download", pc |-> "responded", id |-> id, res |-> res]
          /\ jobOutputs' = DownloadOutputs(jobOutputs, id, res)
          /\ delivered' = IF res.status = 200
                          THEN [delivered EXCEPT ![id] = @ + 1]
                          ELSE delivered
    /\ turn' = << "req" >>
    /\ UNCHANGED << audioFiles, audioFileData, processingJobs, tasks, preview, pu,
                    escaped >>
    /\ UNCHANGED << savedMarkers, client >>

\* ------------------------------------------------ POST /api/audio/:id/markers
\* What the handler answers: no schema is applied; a body without markers
\* makes markers.filter throw, which the catch block answers 500.
SaveMarkersResponse(files, id, body) ==
    LET audioFile == getAudioFile(files, id)
    IN IF audioFile = Undefined THEN [status |-> 404, message |-> "Audio file not found"]
       ELSE IF body.markers = Absent
       THEN [status |-> 500, message |-> "Failed to save markers"]
       ELSE IF \E i \in 1 .. Len(body.markers[1]) :
                  body.markers[1][i].timestamp > audioFile.duration
       THEN [status |-> 400, message |-> "Some markers exceed audio duration"]
       ELSE [status |-> 200, message |-> "ok"]

\* The handler awaits storage methods only, so it runs to its answer in one
\* turn.
PostMarkers(id, body) ==
    /\ turn = Loop
    /\ req = NoRequest
    /\ LET res == SaveMarkersResponse(audioFiles, id, body)
       IN /\ req' = [kind |-> "markers", pc |-> "responded", id |-> id, body |-> body,
                     res |-> res]
          /\ savedMarkers' = IF res.status = 200
                             THEN updateMarkers(savedMarkers, id, body.markers[1])
                             ELSE savedMarkers
    /\ turn' = << "req" >>
    /\ UNCHANGED << audioFiles, audioFileData, processingJobs, jobOutputs, tasks,
                    preview, pu, delivered, escaped, client >>

\* -------------------------------------------------------- POST /api/preview
\* Lines 141-159: the handler up to its first wait for I/O.  The awaited
\* storage lookup does no I/O, so its continuation runs in the same turn:
\* validation 400, unknown asset 404, marker beyond the duration 400, bytes
\* gone 404; else generatePreviewBuffer sorts and pairs the markers and calls
\* processSegmentsToBuffer in crossfade mode.
PreviewStart(files, data, body) ==
    LET issues == previewAudioSchema(body)
        audioFile == getAudioFile(files, body.audioFileId)
        inputBuffer == getAudioBytes(data, body.audioFileId)
        sortedMarkers == SortByTimestamp(body.markers)
        answer(status, message) ==
            [kind |-> "preview", pc |-> "responded", body |-> body, pl |-> Undefined,
             res |-> [status |-> status, message |-> message]]
    IN IF issues # << >> THEN answer(400, issues[1])
       ELSE IF audioFile = Undefined THEN answer(404, "Audio file not found")
       ELSE IF MaxTimestamp(body.markers) > audioFile.duration
       THEN answer(400, "Some markers exceed audio duration")
       ELSE IF inputBuffer = Undefined THEN answer(404, "Audio bytes not found")
       ELSE IF Len(sortedMarkers) % 2 # 0 THEN answer(500, "Failed to generate preview")
       ELSE [kind |-> "preview", pc |-> "running", body |-> body,
             pl |-> StartPipeline(BuildSegments(sortedMarkers), "crossfade",
                                  previewCrossfadeDuration(body)),
             res |-> Undefined]

PostPreview(body) ==
    /\ turn = Loop
    /\ preview = NoRequest
    /\ preview' = PreviewStart(audioFiles, audioFileData, body)
    /\ UNCHANGED << audioFiles, audioFileData, processingJobs, jobOutputs, tasks, req,
                    pu, turn, delivered, escaped >>
    /\ UNCHANGED << savedMarkers, client >>

\* Lines 159-168: an I/O completion resumes processSegmentsToBuffer; once it
\* has returned the handler sends the bytes, once it has thrown a 500.
PreviewIO ==
    /\ turn = Loop
    /\ preview.kind = "preview"
    /\ preview.pc = "running"
    /\ \E ok, left \in BOOLEAN :
          LET pl == PipelineStep(preview.pl, ok, left)
          IN preview' =
                IF PipelineWaiting(pl) THEN [preview EXCEPT !.pl = pl]
                ELSE [preview EXCEPT
                        !.pl = pl,
                        !.pc = "responded",
                        !.res = IF pl.error
                                THEN [status |-> 500,
                                      message |-> "Failed to generate preview"]
                                ELSE [status |-> 200, data |-> pl.data]]
    /\ UNCHANGED << audioFiles, audioFileData, processingJobs, jobOutputs, tasks, req,
                    pu, turn, delivered, escaped >>
    /\ UNCHANGED << savedMarkers, client >>

\* PreviewReturn freeing the input bytes as a completed job does.
PreviewReturnDeletesInput ==
    /\ turn = Loop
    /\ preview.kind = "preview"
    /\ preview.pc = "responded"
    /\ preview' = NoRequest
    /\ audioFileData' = deleteAudioBytes(audioFileData, preview.body.audioFileId)
    /\ UNCHANGED << audioFiles, processingJobs, jobOutputs, tasks, req,
                    pu, turn, delivered, escaped >>
    /\ UNCHANGED << savedMarkers, client >>

PreviewReturn ==
    /\ turn = Loop
    /\ preview.kind = "preview"
    /\ preview.pc = "responded"
    /\ preview' = NoRequest
    /\ UNCHANGED << audioFiles, audioFileData, processingJobs, jobOutputs, tasks, req,
                    pu, turn, delivered, escaped >>
    /\ UNCHANGED << savedMarkers, client >>

\* --------------------------------------------------- process-upload handler
\* parseMarkers: a missing or unparsable field is the empty list.
parseMarkers(raw) == IF raw = Absent THEN << >> ELSE raw[1]

\* Math.max(0.1, Math.min(10, Number(fields.crossfadeDuration ?? 1.0)))
clampCrossfadeDuration(cf) ==
    LET n == IF cf = Absent THEN CrossfadeDefaultTenths ELSE cf[1]
        capped == IF n > UploadCrossfadeMaxSeconds * TenthsPerSecond
                  THEN UploadCrossfadeMaxSeconds * TenthsPerSecond ELSE n
    IN IF capped < CrossfadeMinTenths THEN CrossfadeMinTenths ELSE capped

\* The messages of the errors an awaited call rejects with: one of the file
\* system, one of the engine, and an error that carries no message.
ErrorMessages ==
    { "ENOSPC: no space left on device", "ffmpeg exited with code 1", "" }

\* segments[0] ?? { startTime: 0, endTime: 60 }
DefaultSegment == [startTime |-> 0, endTime |-> DefaultSegmentSeconds * TenthsPerSecond]

UploadAnswer(p, status, message) ==
    [p EXCEPT !.pc = "responded", !.res = [status |-> status, message |-> message]]

\* catch (e): res.status(500).json({ message: e?.message || "Processing failed" }).
\* Once the 200 is out the second answer throws ERR_HTTP_HEADERS_SENT inside
\* the catch block: the response stays as sent and the handler's promise
\* rejects.
UploadCatch(p, message) ==
    IF p.res # Undefined
    THEN [p EXCEPT !.pc = "responded", !.rejected = TRUE]
    ELSE UploadAnswer(p, 500, IF message = "" THEN "Processing failed" ELSE message)

\* Lines 62-106: the handler from the end of the multipart parse to its mkdir.
UploadStart(request) ==
    LET p == [kind |-> "process-upload", pc |-> "mkdir", request |-> request,
              markers |-> parseMarkers(request.markers),
              outputMode |-> IF request.outputMode = "direct" THEN "direct"
                             ELSE "crossfade",
              crossfadeDuration |-> clampCrossfadeDuration(request.crossfadeDuration),
              segments |-> << >>, i |-> 0, calls |-> << >>, tmpDir |-> FALSE,
              segmentFiles |-> << >>, out |-> Absent, res |-> Undefined,
              cleanupError |-> FALSE, rejected |-> FALSE]
    IN IF request.method # "POST" THEN UploadAnswer(p, 405, "Method not allowed")
       ELSE IF request.parseError # Absent THEN UploadCatch(p, request.parseError[1])
       ELSE IF request.ext \notin {".mp3", ".wav"}
       THEN UploadAnswer(p, 400, "Only MP3 and WAV files are allowed")
       ELSE p

UploadExtract(p, segments, i, pc) ==
    [p EXCEPT !.pc = pc, !.segments = segments, !.i = i,
              !.calls = Append(@, ExtractCall(segments, i))]

UploadJoin(p) ==
    [p EXCEPT !.pc = "join",
              !.calls = Append(@, JoinCall(p.segments, p.outputMode, p.crossfadeDuration))]

\* Lines 106-231: the continuation of the handler after the I/O it awaited
\* has signalled success (ok) or thrown an error with the given message; the
\* error goes to the catch block, which removes nothing.
UploadStep(p, ok, message) ==
    CASE p.pc = "mkdir" ->
            IF ok THEN [p EXCEPT !.pc = "writeInput", !.tmpDir = TRUE]
            ELSE UploadCatch(p, message)
      [] p.pc = "writeInput" ->
            LET sortedMarkers == SortByTimestamp(p.markers)
                segments == BuildSegments(sortedMarkers)
            IN IF ~ok THEN UploadCatch(p, message)
               ELSE IF Len(sortedMarkers) % 2 # 0
               THEN UploadAnswer(p, 400, "Even number of markers required.")
               ELSE IF Len(segments) <= 1
               THEN UploadExtract(p, IF segments = << >> THEN << DefaultSegment >>
                                     ELSE segments, 1, "extractSingle")
               ELSE UploadExtract(p, segments, 1, "extract")
      [] p.pc = "extractSingle" ->
            IF ok THEN [p EXCEPT !.pc = "readOutput",
                                 !.out = << EngineExtract(p.calls[Len(p.calls)]) >>]
            ELSE UploadCatch(p, message)
      [] p.pc = "extract" ->
            IF ~ok THEN UploadCatch(p, message)
            ELSE LET got == [p EXCEPT !.segmentFiles =
                                Append(@, EngineExtract(p.calls[Len(p.calls)]))]
                 IN IF p.i < Len(p.segments)
                    THEN UploadExtract(got, p.segments, p.i + 1, "extract")
                    ELSE UploadJoin(got)
      [] p.pc = "join" ->
            IF ok THEN [p EXCEPT !.pc = "readOutput",
                                 !.out = << EngineJoin(p.segmentFiles,
                                                       p.calls[Len(p.calls)]) >>]
            ELSE UploadCatch(p, message)
      [] p.pc = "readOutput" ->
            IF ~ok THEN UploadCatch(p, message)
            ELSE [p EXCEPT !.pc = "cleanup",
                           !.res = [status |-> 200,
                                    data |-> [duration |-> p.out[1]]]]
      \* The response is out; an error of fs.rm leaves the directory and goes
      \* to the catch block as any other.
      [] p.pc = "cleanup" ->
            IF ok THEN [p EXCEPT !.pc = "responded", !.tmpDir = FALSE]
            ELSE UploadCatch([p EXCEPT !.cleanupError = TRUE], message)
      [] OTHER -> p

ProcessUpload(request) ==
    /\ turn = Loop
    /\ pu = NoRequest
    /\ pu' = UploadStart(request)
    /\ UNCHANGED << audioFiles, audioFileData, processingJobs, jobOutputs, tasks, req,
                    preview, turn, delivered, escaped >>
    /\ UNCHANGED << savedMarkers, client >>

ProcessUploadIO ==
    /\ turn = Loop
    /\ pu.kind = "process-upload"
    /\ pu.pc # "responded"
    /\ \E ok \in BOOLEAN, message \in ErrorMessages : pu' = UploadStep(pu, ok, message)
    /\ UNCHANGED << audioFiles, audioFileData, processingJobs, jobOutputs, tasks, req,
                    preview, turn, delivered, escaped >>
    /\ UNCHANGED << savedMarkers, client >>

\* The invocation is over; what it left in /tmp is not tracked further.
ProcessUploadReturn ==
    /\ turn = Loop
    /\ pu.kind = "process-upload"
    /\ pu.pc = "responded"
    /\ pu' = NoRequest
    /\ UNCHANGED << audioFiles, audioFileData, processingJobs, jobOutputs, tasks, req,
                    preview, turn, delivered, escaped >>
    /\ UNCHANGED << savedMarkers, client >>

\* ------------------------------------------ MarkerManager.handleGenerateAudio
\* The user clicks Generate: the button is rendered only while
\* generatedJobId is null, which nothing resets, and is disabled while
\* isGenerating.  The markers pass the component's own check, isGenerating
\* is set and the submit is sent.
ClientGenerate ==
    /\ client.pc = "idle"
    /\ client.generatedJobId = Absent
    /\ ~client.isGenerating
    /\ client' = [client EXCEPT !.pc = "submitting", !.isGenerating = TRUE]
    /\ UNCHANGED << audioFiles, audioFileData, processingJobs, jobOutputs, tasks, req,
                    preview, pu, turn, delivered, escaped, savedMarkers >>

\* handleGenerateAudio after the answer res to its submit: not ok throws into
\* the catch block, which resets isGenerating; else the job id is kept and
\* pollStatus() is called, without await, and sends the first poll.
ClientAfterSubmit(c, res) ==
    IF res.status # 200 THEN [c EXCEPT !.pc = "idle", !.isGenerating = FALSE]
    ELSE [c EXCEPT !.pc = "polling", !.generatedJobId = << res.jobId >>]

\* pollStatus after the answer res to its poll: completed resets
\* isGenerating; failed throws, and since the promise of pollStatus is
\* neither awaited nor caught, the rejection ends the polling and nothing
\* else; any other body arms the timer for the next poll.
ClientAfterPoll(c, res) ==
    IF res.status = 200 /\ res.job.status = "completed"
    THEN [c EXCEPT !.pc = "idle", !.isGenerating = FALSE]
    ELSE IF res.status = 200 /\ res.job.status = "failed"
    THEN [c EXCEPT !.pc = "rejected"]
    ELSE c

\* The answer the process handler has sent is the one to the component's
\* submit: it sends an even number of markers, at least two.
ClientSubmitAnswered ==
    /\ client.pc = "submitting"
    /\ turn = << "req" >>
    /\ req.kind = "process"
    /\ req.pc = "responded"
    /\ Len(req.body.markers) >= 2
    /\ Len(req.body.markers) % 2 = 0
    /\ client' = ClientAfterSubmit(client, req.res)
    /\ UNCHANGED << audioFiles, audioFileData, processingJobs, jobOutputs, tasks, req,
                    preview, pu, turn, delivered, escaped, savedMarkers >>

\* The answer the poll handler has sent is the one to the component's poll
\* of its job.
ClientPollAnswered ==
    /\ client.pc = "polling"
    /\ turn = << "req" >>
    /\ req.kind = "poll"
    /\ req.pc = "responded"
    /\ req.id = client.generatedJobId[1]
    /\ client' = ClientAfterPoll(client, req.res)
    /\ client' # client
    /\ UNCHANGED << audioFiles, audioFileData, processingJobs, jobOutputs, tasks, req,
                    preview, pu, turn, delivered, escaped, savedMarkers >>

\* ----------------------------------------------------------------- inputs
Tenths(seconds) == seconds * TenthsPerSecond

\* The marker list a client builds from timestamps: order is the position.
Markers(timestamps) ==
    [i \in 1 .. Len(timestamps) |-> [timestamp |-> timestamps[i], order |-> i - 1]]

Body(audioFileId, timestamps, outputMode, crossfadeDuration) ==
    [audioFileId |-> audioFileId, markers |-> Markers(timestamps),
     outputMode |-> outputMode, crossfadeDuration |-> crossfadeDuration]

\* The requests submitted while jobs run side by side.  Accepted on a known
\* asset: one unsorted segment (crossfade mode, default duration) and two
\* segments (direct mode).  Rejected: an odd list, a zero-length pair, a
\* marker beyond the asset, an empty list, a negative timestamp, and an
\* asset id no upload has returned.
SubmittedBodies ==
    { Body(a, << Tenths(2), Tenths(1) >>, "crossfade", Absent) : a \in 1 .. MaxAssets + 1 }
    \cup { Body(a, << 0, Tenths(1), Tenths(2), Tenths(MaxTime) >>, "direct", << 5 >>) :
            a \in 1 .. MaxAssets }
    \cup { Body(1, ts, "direct", Absent) :
            ts \in { << Tenths(1), Tenths(2), Tenths(3) >>,
                     << Tenths(2), Tenths(2) >>,
                     << Tenths(1), Tenths(MaxTime + 1) >>,
                     << >>,
                     << 0 - Tenths(1), Tenths(1) >> } }

UploadedFiles ==
    { [present |-> TRUE, originalname |-> "a.mp3", format |-> ".mp3",
       probe |-> "ok", duration |-> d] :
        d \in {Tenths(MaxTime), Tenths(MaxUploadSeconds) + 1} }
    \cup { [present |-> TRUE, originalname |-> "a.mp3", format |-> ".mp3",
            probe |-> "error", duration |-> 0],
           [present |-> FALSE, originalname |-> "", format |-> "",
            probe |-> "error", duration |-> 0] }

\* ---------------------------------------------------------- specification
Next ==
    \/ \E file \in UploadedFiles : PostUpload(file)
    \/ \E body \in SubmittedBodies : PostProcess(body)
    \/ ProcessCreateJob
    \/ ProcessStartTask
    \/ HandlerReturn
    \/ \E j \in JobIds : TaskBegin(j)
    \/ \E j \in JobIds : TaskIO(j)
    \/ \E j \in JobIds : TaskSettle(j)
    \/ \E j \in JobIds : TaskDeleteInput(j)
    \/ \E id \in JobIds : GetJob(id)
    \/ \E id \in JobIds : GetDownload(id)

Spec == Init /\ [][Next]_vars

\* A step of the handler that is running, and a step of some job's task.
HandlerStep == ProcessCreateJob \/ ProcessStartTask \/ HandlerReturn

TaskStep == \E j \in JobIds : TaskBegin(j) \/ TaskIO(j) \/ TaskSettle(j) \/ TaskDeleteInput(j)

\* The scheduling Node provides: the handler that is running runs on to its
\* end, and the event loop takes a task's queued continuation or ready I/O
\* completion however many requests arrive (every engine run and file
\* operation signals its end).  Only that some task moves is assumed, not
\* that each does.
Fairness == WF_vars(HandlerStep) /\ SF_vars(TaskStep)

FairSpec == Spec /\ Fairness

\* ------------------------------------------- the handlers, input by input
\* Every marker list of up to MaxMarkers markers over whole seconds from
\* below zero to beyond the uploaded asset's duration, in every order.
TimeStamps == { Tenths(t) : t \in -1 .. MaxTime + 1 }

MarkerLists == UNION { [1 .. n -> TimeStamps] : n \in 0 .. MaxMarkers }

\* Lists for the requests whose other fields vary; the last one makes three
\* segments of different lengths, submitted out of order.
SampleLists ==
    { << Tenths(1), Tenths(2) >>, << Tenths(2), Tenths(2) >>,
      << Tenths(1), Tenths(2), Tenths(3) >>,
      << Tenths(2), 0, Tenths(3), Tenths(2) >>,
      << Tenths(2), 0, Tenths(3), 5, Tenths(1), Tenths(2) >> }

CrossfadeInputs ==
    { Absent, << 0 >>, << CrossfadeMinTenths >>, << CrossfadeMaxTenths >>,
      << CrossfadeMaxTenths + 1 >> }

ProcessBodies ==
    { Body(1, ts, "direct", Absent) : ts \in MarkerLists }
    \cup { Body(1, ts, "crossfade", << 5 >>) : ts \in MarkerLists }
    \cup { Body(a, ts, mode, cf) :
            a \in {1, MaxAssets + 1}, ts \in SampleLists,
            mode \in {"direct", "crossfade", "mix"}, cf \in CrossfadeInputs }

PreviewBody(audioFileId, timestamps, crossfadeDuration) ==
    [audioFileId |-> audioFileId, markers |-> Markers(timestamps),
     crossfadeDuration |-> crossfadeDuration]

PreviewBodies ==
    { PreviewBody(1, ts, Absent) : ts \in MarkerLists }
    \cup { PreviewBody(a, ts, cf) :
            a \in {1, MaxAssets + 1}, ts \in SampleLists, cf \in CrossfadeInputs }

UploadRequest(method, parseError, ext, markers, outputMode, crossfadeDuration) ==
    [method |-> method, parseError |-> parseError, ext |-> ext, markers |-> markers,
     outputMode |-> outputMode, crossfadeDuration |-> crossfadeDuration]

UploadRequests ==
    { UploadRequest("POST", Absent, ".mp3", << Markers(ts) >>, "direct", Absent) :
        ts \in MarkerLists }
    \cup { UploadRequest("POST", Absent, ".wav", << Markers(ts) >>, mode, cf) :
            ts \in SampleLists, mode \in {"direct", "crossfade", "mix"},
            cf \in CrossfadeInputs \cup { << UploadCrossfadeMaxSeconds * TenthsPerSecond + 1 >> } }
    \cup { UploadRequest("GET", Absent, ".mp3", Absent, "direct", Absent),
           UploadRequest("POST", << "Unexpected end of form" >>, ".mp3", Absent, "direct", Absent),
           UploadRequest("POST", Absent, ".txt", Absent, "direct", Absent),
           UploadRequest("POST", Absent, ".mp3", Absent, "crossfade", Absent) }

\* Nothing is in flight and no job was accepted yet.
HandlerIdle ==
    /\ req = NoRequest
    /\ preview = NoRequest
    /\ pu = NoRequest
    /\ tasks = EmptyMap

\* The requests one at a time: uploads, then any request on its own, until a
\* submit is accepted, whose job then runs to its end.
HandlerNext ==
    \/ HandlerIdle /\ \E file \in UploadedFiles : PostUpload(file)
    \/ HandlerIdle /\ \E body \in ProcessBodies : PostProcess(body)
    \/ ProcessCreateJob
    \/ ProcessStartTask
    \/ HandlerReturn
    \/ \E j \in JobIds : TaskBegin(j)
    \/ \E j \in JobIds : TaskIO(j)
    \/ \E j \in JobIds : TaskSettle(j)
    \/ \E j \in JobIds : TaskDeleteInput(j)
    \/ HandlerIdle /\ \E body \in PreviewBodies : PostPreview(body)
    \/ PreviewIO
    \/ PreviewReturn
    \/ HandlerIdle /\ \E request \in UploadRequests : ProcessUpload(request)
    \/ ProcessUploadIO
    \/ ProcessUploadReturn

HandlerSpec == Init /\ [][HandlerNext]_vars

\* ------------------------------------------- every endpoint, side by side
\* Marker saves: a list within the asset, one beyond it, a body without
\* markers, and an asset id no upload has returned.
SavedBodies ==
    { [markers |-> << Markers(<< Tenths(1), Tenths(2) >>) >>],
      [markers |-> << Markers(<< Tenths(1), Tenths(MaxTime + 1) >>) >>],
      [markers |-> Absent] }

\* Previews: one segment on a known and on an unknown asset, and an odd list.
ServerPreviewBodies ==
    { PreviewBody(a, << Tenths(1), Tenths(2) >>, Absent) : a \in 1 .. MaxAssets + 1 }
    \cup { PreviewBody(1, << Tenths(1), Tenths(2), Tenths(3) >>, Absent) }

\* Submits: one segment on a known and on an unknown asset, and an odd list.
ServerSubmittedBodies ==
    { Body(a, << Tenths(2), Tenths(1) >>, "crossfade", Absent) : a \in 1 .. MaxAssets + 1 }
    \cup { Body(1, << Tenths(1), Tenths(2), Tenths(3) >>, "direct", Absent) }

\* The requests of Next, with marker saves and previews among them.
ServerNext ==
    \/ \E file \in UploadedFiles : PostUpload(file)
    \/ \E body \in ServerSubmittedBodies : PostProcess(body)
    \/ ProcessCreateJob
    \/ ProcessStartTask
    \/ HandlerReturn
    \/ \E j \in JobIds : TaskBegin(j)
    \/ \E j \in JobIds : TaskIO(j)
    \/ \E j \in JobIds : TaskSettle(j)
    \/ \E j \in JobIds : TaskDeleteInput(j)
    \/ \E id \in JobIds : GetJob(id)
    \/ \E id \in JobIds : GetDownload(id)
    \/ \E id \in 1 .. MaxAssets + 1, body \in SavedBodies : PostMarkers(id, body)
    \/ \E body \in ServerPreviewBodies : PostPreview(body)
    \/ PreviewIO
    \/ PreviewReturn

ServerSpec == Init /\ [][ServerNext]_vars

\* ------------------------------------------------- a browser and the server
\* The requests of Next with one MarkerManager among their senders.
ClientNext ==
    \/ \E file \in UploadedFiles : PostUpload(file)
    \/ \E body \in SubmittedBodies : PostProcess(body)
    \/ ProcessCreateJob
    \/ ProcessStartTask
    \/ HandlerReturn
    \/ \E j \in JobIds : TaskBegin(j)
    \/ \E j \in JobIds : TaskIO(j)
    \/ \E j \in JobIds : TaskSettle(j)
    \/ \E j \in JobIds : TaskDeleteInput(j)
    \/ \E id \in JobIds : GetJob(id)
    \/ \E id \in JobIds : GetDownload(id)
    \/ ClientGenerate
    \/ ClientSubmitAnswered
    \/ ClientPollAnswered

ClientSpec == Init /\ [][ClientNext]_vars

\* ----------------------------------------------------------------- claims
StatusOf(j) == processingJobs[j].status

Terminal(j) == StatusOf(j) \in {"completed", "failed"}

\* The number of engine invocations the plan of n segments holds.
PlannedCalls(n) == IF n = 1 THEN 1 ELSE n + 1

\* C1: a job record is created with status pending, and its status only ever
\* changes from pending to processing and from processing to completed or
\* failed: nothing follows completed or failed, and processing is not skipped.
C1_StatusSequence ==
    [][\A j \in DOMAIN processingJobs' :
          IF j \notin DOMAIN processingJobs
          THEN processingJobs'[j].status = "pending"
          ELSE \/ processingJobs'[j].status = processingJobs[j].status
               \/ << processingJobs[j].status, processingJobs'[j].status >> \in
                    { << "pending", "processing" >>,
                      << "processing", "completed" >>,
                      << "processing", "failed" >> }]_vars

\* Two jobs have run side by side, one to completed and one to failed.
C1_Witness ==
    \E j, k \in DOMAIN processingJobs :
        /\ StatusOf(j) = "completed"
        /\ StatusOf(k) = "failed"
        /\ j \notin tasks[k].completedBefore

\* C2: under fair scheduling every job that was created reaches completed or
\* failed.
C2_JobTerminates ==
    \A j \in JobIds :
        (j \in DOMAIN processingJobs) ~> (j \in DOMAIN processingJobs /\ Terminal(j))

\* A job's last engine step has run and its task is about to settle.
C2_Witness ==
    \E j \in DOMAIN tasks :
        /\ tasks[j].pc = "running"
        /\ tasks[j].pl.pc = "returned"
        /\ Len(tasks[j].pl.calls) = PlannedCalls(Len(tasks[j].pl.segments))
        /\ \E k \in DOMAIN tasks : Terminal(k)

\* The timestamp at position p (from 1) of the markers put in ascending
\* order: the value with fewer than p timestamps below it and at least p
\* timestamps not above it.
SortedTimestamp(markers, p) ==
    CHOOSE v \in { markers[i].timestamp : i \in 1 .. Len(markers) } :
        /\ Cardinality({ i \in 1 .. Len(markers) : markers[i].timestamp < v }) < p
        /\ p <= Cardinality({ i \in 1 .. Len(markers) : markers[i].timestamp <= v })

\* Some pair (2k, 2k+1) of the markers in ascending order has start >= end.
SomePairInvalid(markers) ==
    \E k \in 1 .. (Len(markers) \div 2) :
        SortedTimestamp(markers, 2 * k - 1) >= SortedTimestamp(markers, 2 * k)

\* The conditions under which a marker list is to be accepted for an asset.
MarkersAcceptable(markers, duration) ==
    /\ Len(markers) >= 2
    /\ Len(markers) % 2 = 0
    /\ \A i \in 1 .. Len(markers) :
          markers[i].timestamp >= 0 /\ markers[i].timestamp <= duration
    /\ ~SomePairInvalid(markers)

ValidJoinParameters(body) ==
    /\ body.outputMode \in {"direct", "crossfade"}
    /\ \/ body.crossfadeDuration = Absent
       \/ body.crossfadeDuration[1] \in CrossfadeMinTenths .. CrossfadeMaxTenths

\* C3: a submit whose marker list has odd length is answered 400 by the
\* step that takes it, with the odd-count message when the list has at least
\* three markers and no negative timestamp (else with the message of the
\* earlier check it fails too), and that step creates no job record and no
\* task, so no engine invocation is made for it.
C3_OddListRejected ==
    [][(req'.kind = "process" /\ Len(req'.body.markers) % 2 = 1)
         => /\ req'.pc = "responded"
            /\ req'.res.status = 400
            /\ ( /\ Len(req'.body.markers) >= 3
                 /\ \A i \in 1 .. Len(req'.body.markers) :
                       req'.body.markers[i].timestamp >= 0 )
                  => req'.res.message =
                        "Even number of markers required - each pair creates one segment"
            /\ UNCHANGED << processingJobs, tasks, jobOutputs, audioFileData >>]_vars

\* Three markers in range on an uploaded asset were answered with the
\* odd-count error.
C3_Witness ==
    /\ req.kind = "process"
    /\ req.pc = "responded"
    /\ Len(req.body.markers) = 3
    /\ req.body.audioFileId \in DOMAIN audioFiles
    /\ MaxTimestamp(req.body.markers) <= audioFiles[req.body.audioFileId].duration
    /\ req.res.status = 400
    /\ req.res.message = "Even number of markers required - each pair creates one segment"

\* C4: for an uploaded asset and valid join parameters the process handler
\* accepts a marker list exactly when its length is even and at least 2, every
\* timestamp lies in [0, duration], and in ascending order every pair
\* (2k, 2k+1) has start < end; any other list is answered 400.
C4_AcceptsIffAcceptable ==
    ( /\ req.kind = "process"
      /\ req.pc \in {"created", "responded"}
      /\ req.body.audioFileId \in DOMAIN audioFiles
      /\ ValidJoinParameters(req.body) )
    => IF MarkersAcceptable(req.body.markers, audioFiles[req.body.audioFileId].duration)
       THEN req.pc = "created" \/ req.res.status = 200
       ELSE req.pc = "responded" /\ req.res.status = 400

\* Four markers submitted out of order, making two segments that touch, were
\* accepted.
C4_Witness ==
    /\ req.kind = "process"
    /\ req.pc = "responded"
    /\ req.res.status = 200
    /\ Len(req.body.markers) = 4
    /\ req.body.markers[1].timestamp > req.body.markers[4].timestamp
    /\ SortedTimestamp(req.body.markers, 2) = SortedTimestamp(req.body.markers, 3)

\* The sum over the pairs 1 .. n of the markers in ascending order of end
\* minus start.
RECURSIVE PairSum(_, _)
PairSum(markers, n) ==
    IF n = 0 THEN 0
    ELSE (SortedTimestamp(markers, 2 * n) - SortedTimestamp(markers, 2 * n - 1))
         + PairSum(markers, n - 1)

\* The duration a request with these markers is to produce.
ExpectedDuration(markers, outputMode, crossfadeDuration) ==
    LET n == Len(markers) \div 2
    IN IF outputMode = "direct" \/ n = 1 THEN PairSum(markers, n)
       ELSE PairSum(markers, n) - (n - 1) * crossfadeDuration

\* C11: with an engine that yields what it is asked for, the output of a
\* job is as long as the sum of its segments in direct mode or with one
\* segment, and that sum less (N - 1) times the job record's crossfadeDuration
\* in crossfade mode; a preview, always a crossfade, likewise with the
\* crossfadeDuration of its request (1.0 s when absent).
C11_OutputDuration ==
    /\ \A j \in DOMAIN tasks :
          tasks[j].output # Undefined
             => tasks[j].output.duration =
                   ExpectedDuration(tasks[j].markers, processingJobs[j].outputMode,
                       IF processingJobs[j].crossfadeDuration = Absent THEN 0
                       ELSE processingJobs[j].crossfadeDuration[1])
    /\ (preview.kind = "preview" /\ preview.pc = "responded" /\ preview.res.status = 200)
          => preview.res.data.duration =
                ExpectedDuration(preview.body.markers, "crossfade",
                    IF preview.body.crossfadeDuration = Absent THEN CrossfadeDefaultTenths
                    ELSE preview.body.crossfadeDuration[1])

\* A crossfade job of two segments, its markers submitted out of order, has
\* produced its output.
C11_Witness ==
    \E j \in DOMAIN tasks :
        /\ tasks[j].output # Undefined
        /\ processingJobs[j].outputMode = "crossfade"
        /\ Len(tasks[j].markers) = 4
        /\ tasks[j].markers[1].timestamp > tasks[j].markers[2].timestamp
        /\ tasks[j].output.duration < PairSum(tasks[j].markers, 2)

\* More than one segment, and some segment shorter than the crossfade.
CrossfadeTooLong(markers, crossfadeDuration) ==
    /\ Len(markers) >= 4
    /\ \E k \in 1 .. (Len(markers) \div 2) :
          SortedTimestamp(markers, 2 * k) - SortedTimestamp(markers, 2 * k - 1)
             < crossfadeDuration

\* C12: a crossfade request on an uploaded asset, its markers acceptable and
\* its crossfadeDuration in range, with more than one segment and a segment
\* shorter than the crossfadeDuration, is not accepted by the process handler
\* (it is answered 400), no task of such a job issues an engine call, and a
\* preview of the kind is answered without a call of processSegmentsToBuffer.
C12_CrossfadeTooLongRejected ==
    /\ ( /\ req.kind = "process"
         /\ req.body.audioFileId \in DOMAIN audioFiles
         /\ ValidJoinParameters(req.body)
         /\ req.body.outputMode = "crossfade"
         /\ MarkersAcceptable(req.body.markers, audioFiles[req.body.audioFileId].duration)
         /\ CrossfadeTooLong(req.body.markers, CrossfadeOrDefault(req.body.crossfadeDuration)) )
          => /\ req.pc # "created"
             /\ req.pc = "responded" => req.res.status = 400
    /\ \A j \in DOMAIN tasks :
          ( /\ tasks[j].outputMode = "crossfade"
            /\ CrossfadeTooLong(tasks[j].markers, tasks[j].crossfadeDuration)
            /\ tasks[j].pl # Undefined )
             => tasks[j].pl.calls = << >>
    /\ ( /\ preview.kind = "preview"
         /\ CrossfadeTooLong(preview.body.markers, previewCrossfadeDuration(preview.body)) )
          => preview.pl = Undefined

\* A crossfadeDuration was sent and lies outside [0.1, 5.0] seconds.
CrossfadeOutOfRange(cf) ==
    /\ cf # Absent
    /\ cf[1] \notin CrossfadeMinTenths .. CrossfadeMaxTenths

\* C13: a request whose crossfadeDuration lies outside [0.1, 5.0] seconds is
\* answered 400 by the process and the preview handler at once, and the
\* process-upload handler issues no engine call and sends no 200 for it.
C13_CrossfadeRangeEnforced ==
    /\ (req.kind = "process" /\ CrossfadeOutOfRange(req.body.crossfadeDuration))
          => (req.pc = "responded" /\ req.res.status = 400)
    /\ (preview.kind = "preview" /\ CrossfadeOutOfRange(preview.body.crossfadeDuration))
          => (preview.pc = "responded" /\ preview.res.status = 400
              /\ preview.pl = Undefined)
    /\ (pu.kind = "process-upload" /\ CrossfadeOutOfRange(pu.request.crossfadeDuration))
          => /\ pu.calls = << >>
             /\ pu.pc = "responded" => pu.res.status # 200

\* C14: a submit in crossfade mode without a crossfadeDuration, on an
\* uploaded asset and with acceptable markers, creates no job and is answered
\* 400.
C14_CrossfadeNeedsDuration ==
    ( /\ req.kind = "process"
      /\ req.body.outputMode = "crossfade"
      /\ req.body.crossfadeDuration = Absent
      /\ req.body.audioFileId \in DOMAIN audioFiles
      /\ MarkersAcceptable(req.body.markers, audioFiles[req.body.audioFileId].duration) )
    => /\ req.pc # "created"
       /\ req.pc = "responded" => req.res.status = 400

\* C15: the step that marks a job failed writes something else into its
\* record too (the poll returns the record as it is): a field is added, or a
\* field other than status changes.
C15_FailureCarriesSummary ==
    [][\A j \in DOMAIN processingJobs :
          (StatusOf(j) # "failed" /\ processingJobs'[j].status = "failed")
             => \E f \in DOMAIN processingJobs'[j] \ {"status"} :
                   \/ f \notin DOMAIN processingJobs[j]
                   \/ processingJobs'[j][f] # processingJobs[j][f]]_vars

\* C16: the upload handler answers a file whose probed duration exceeds
\* MaxUploadSeconds with 400 and the too-long message, and stores neither an
\* asset record nor bytes for it.
C16_TooLongUploadRejected ==
    [][( /\ req'.kind = "upload"
         /\ req'.body.present
         /\ req'.body.probe = "ok"
         /\ req'.body.duration > MaxUploadSeconds * TenthsPerSecond )
          => /\ req'.res.status = 400
             /\ req'.res.message = "Audio file too long (max 60 minutes)"
             /\ UNCHANGED << audioFiles, audioFileData >>]_vars

\* The plan of a job: one extract per pair of the markers in ascending
\* order, then the join of its mode.
Plan(markers, outputMode, crossfadeDuration) ==
    LET n == Len(markers) \div 2
    IN [k \in 1 .. n + 1 |->
          IF k <= n
          THEN [op |-> "extract", index |-> k - 1,
                startTime |-> SortedTimestamp(markers, 2 * k - 1),
                duration |-> SortedTimestamp(markers, 2 * k)
                             - SortedTimestamp(markers, 2 * k - 1)]
          ELSE IF outputMode = "direct" THEN [op |-> "concat", n |-> n]
          ELSE [op |-> "crossfade", n |-> n, d |-> crossfadeDuration]]

IsPrefix(s, t) == Len(s) <= Len(t) /\ \A i \in 1 .. Len(s) : s[i] = t[i]

\* What an invocation is, its filter graph left aside: the extract with its
\* start and length, the concat or the crossfade with its segment count.
CallSummary(call) ==
    IF call.op = "extract" THEN call
    ELSE IF call.op = "concat" THEN [op |-> "concat", n |-> call.n]
    ELSE [op |-> "crossfade", n |-> call.n, d |-> call.d]

Summaries(calls) == [i \in 1 .. Len(calls) |-> CallSummary(calls[i])]

\* C17: at every step the engine invocations made for a job are a prefix of
\* its plan; an invocation is made only when every earlier one has ended
\* well (so the join only after all N extracts have written their files),
\* at most one per step, and none after a step of the job has failed.
C17_CallsFollowPlan ==
    [][\A j \in DOMAIN tasks' :
          tasks'[j].pl # Undefined
             => /\ IsPrefix(Summaries(tasks'[j].pl.calls),
                            Plan(tasks'[j].markers, processingJobs'[j].outputMode,
                                 IF processingJobs'[j].crossfadeDuration = Absent THEN 0
                                 ELSE processingJobs'[j].crossfadeDuration[1]))
                /\ Len(tasks'[j].pl.calls) <=
                      (IF Len(tasks'[j].markers) = 2 THEN 1
                       ELSE Len(tasks'[j].pl.segmentFiles) + 1)
                /\ (j \in DOMAIN tasks /\ tasks[j].pl # Undefined)
                      => /\ Len(tasks'[j].pl.calls) <= Len(tasks[j].pl.calls) + 1
                         /\ tasks[j].pl.failedAt # "none"
                               => tasks'[j].pl.calls = tasks[j].pl.calls]_vars

\* A job of two segments has made its join after both extracts, while
\* another job's call stopped at an extract that failed.
C17_Witness ==
    \E j, k \in DOMAIN tasks :
        /\ tasks[j].pl # Undefined
        /\ Len(tasks[j].pl.calls) = 3
        /\ tasks[j].pl.calls[3].op = "concat"
        /\ tasks[k].pl # Undefined
        /\ tasks[k].pl.failedAt \in {"extract", "extractSingle"}

\* This step makes an engine invocation for job j.
Invokes(j) ==
    /\ tasks'[j].pl # Undefined
    /\ Len(tasks'[j].pl.calls) >
          (IF j \in DOMAIN tasks /\ tasks[j].pl # Undefined
           THEN Len(tasks[j].pl.calls) ELSE 0)

\* An engine invocation of job j is under way.
EngineRunning(j) ==
    /\ tasks[j].pl # Undefined
    /\ tasks[j].pl.pc \in {"extractSingle", "extract", "join"}

\* C18: a step that makes an engine invocation for a job finds the job's
\* status processing and leaves it so, and while an invocation of a job is
\* under way its status is processing.
C18_EngineOnlyWhileProcessing ==
    [][\A j \in DOMAIN tasks' :
          /\ Invokes(j)
                => /\ j \in DOMAIN processingJobs
                   /\ StatusOf(j) = "processing"
                   /\ processingJobs'[j].status = "processing"
          /\ EngineRunning(j)' => processingJobs'[j].status = "processing"]_vars

\* The join of one job is under way after another job has ended.
C18_Witness ==
    \E j, k \in DOMAIN tasks :
        /\ EngineRunning(j)
        /\ tasks[j].pl.pc = "join"
        /\ StatusOf(j) = "processing"
        /\ Terminal(k)

\* The temp paths a call of processSegmentsToBuffer that has returned or
\* thrown has left on disk, unless a removal itself failed.
LeftOnDisk(pl) ==
    IF pl # Undefined /\ pl.pc = "returned" /\ ~pl.cleanupError THEN pl.created ELSE {}

\* C19: when processSegmentsToBuffer has returned or thrown, whatever the
\* outcome of its input write, its extracts, its join and its output read,
\* none of the temp paths it created is left (its removals taken to work).
C19_TempFilesRemoved ==
    /\ \A j \in DOMAIN tasks : LeftOnDisk(tasks[j].pl) = {}
    /\ preview.kind = "preview" => LeftOnDisk(preview.pl) = {}

\* C20: once process-upload has created its temp workspace, it has removed
\* it when the handler ends, whether it rejected an odd number of markers,
\* met an engine or file error, or sent the result (the removal itself taken
\* to work).
C20_WorkspaceRemoved ==
    (pu.kind = "process-upload" /\ pu.pc = "responded" /\ ~pu.cleanupError) => ~pu.tmpDir

\* Some job on asset a is pending or processing (in the state after a step
\* when read primed).
JobInFlightOn(a) ==
    \E j \in DOMAIN processingJobs :
        /\ processingJobs[j].audioFileId = a
        /\ processingJobs[j].status \in {"pending", "processing"}

\* C21: no step deletes the stored bytes of an asset while a job on that
\* asset is pending or processing, however the jobs on it interleave.
C21_BytesKeptWhileJobsRun ==
    [][\A a \in DOMAIN audioFileData :
          a \notin DOMAIN audioFileData' => ~JobInFlightOn(a)']_vars

\* The segments a marker list stands for: pair k of the markers in ascending
\* order, for every k.
ExpectedSegments(markers) ==
    [k \in 1 .. (Len(markers) \div 2) |->
        [startTime |-> SortedTimestamp(markers, 2 * k - 1),
         endTime |-> SortedTimestamp(markers, 2 * k)]]

\* C22: for a marker list of length n that a submit or a preview accepted,
\* the executor builds exactly n/2 segments, segment k running from the
\* timestamp at rank 2k to the one at rank 2k+1: no pair is dropped or altered.
C22_SegmentsMatchPairs ==
    /\ \A j \in DOMAIN tasks :
          tasks[j].pl # Undefined
             => tasks[j].pl.segments = ExpectedSegments(tasks[j].markers)
    /\ (preview.kind = "preview" /\ preview.pl # Undefined)
          => preview.pl.segments = ExpectedSegments(preview.body.markers)

\* The executor has built three segments from six markers submitted out of
\* order.
C22_Witness ==
    \E j \in DOMAIN tasks :
        /\ tasks[j].pl # Undefined
        /\ Len(tasks[j].markers) = 6
        /\ tasks[j].markers[1].timestamp > tasks[j].markers[2].timestamp
        /\ Len(tasks[j].pl.segments) = 3

\* The segment file (by index) behind an input stream label of a join call.
ArtifactOf(call, label) ==
    call.inputs[CHOOSE p \in 1 .. Len(call.inputs) : StreamLabel(p - 1) = label]

\* What C23 says of an executor run whose engine work is over: calls are the
\* invocations made for the segments, in the mode given.
SingleOrConcat(segments, outputMode, calls) ==
    LET N == Len(segments)
    IN /\ N = 1 => Len(calls) = 1 /\ calls[1].op = "extract"
       /\ (N > 1 /\ outputMode = "direct")
             => /\ Len(calls) = N + 1
                /\ \A k \in 1 .. N : calls[k].op = "extract" /\ calls[k].index = k - 1
                /\ calls[N + 1].op = "concat"
                /\ Len(calls[N + 1].filter) = 1
                /\ Len(calls[N + 1].filter[1].streams) = N
                /\ \A k \in 1 .. N :
                      ArtifactOf(calls[N + 1], calls[N + 1].filter[1].streams[k]) = k - 1
                /\ calls[N + 1].map = calls[N + 1].filter[1].out

\* C23: once the engine has written the output of a job, of a preview or of
\* a process-upload call, then with one segment (in either mode) the one
\* invocation made was the extract, with no concat or crossfade; and with N > 1
\* segments in direct mode the invocations were the N extracts and then one
\* concat over all N segment files in the order of their indexes.
C23_SingleOrOneConcat ==
    /\ \A j \in DOMAIN tasks :
          (tasks[j].pl # Undefined /\ tasks[j].pl.out # Absent)
             => SingleOrConcat(tasks[j].pl.segments, tasks[j].pl.outputMode,
                               tasks[j].pl.calls)
    /\ (preview.kind = "preview" /\ preview.pl # Undefined /\ preview.pl.out # Absent)
          => SingleOrConcat(preview.pl.segments, preview.pl.outputMode, preview.pl.calls)
    /\ (pu.kind = "process-upload" /\ pu.out # Absent)
          => SingleOrConcat(pu.segments, pu.outputMode, pu.calls)

\* The engine has written the output of a direct job of three segments.
C23_Witness ==
    \E j \in DOMAIN tasks :
        /\ tasks[j].pl # Undefined
        /\ tasks[j].pl.out # Absent
        /\ tasks[j].pl.outputMode = "direct"
        /\ Len(tasks[j].pl.segments) = 3
        /\ tasks[j].pl.segmentFiles = << 5, 10, 10 >>

IsStream(call, label) ==
    \E p \in 1 .. Len(call.inputs) : StreamLabel(p - 1) = label

\* What C24 says of the join call of N > 1 segments in crossfade mode.
LeftToRightChain(N, call) ==
    LET links == call.filter
    IN /\ call.op = "crossfade"
       /\ Len(links) = N - 1
       /\ IsStream(call, links[1].first) /\ ArtifactOf(call, links[1].first) = 0
       /\ \A k \in 1 .. N - 1 :
             /\ IsStream(call, links[k].second)
             /\ ArtifactOf(call, links[k].second) = k
             /\ ~IsStream(call, links[k].out)
             /\ \A m \in 1 .. N - 1 : links[m].out = links[k].out => m = k
             /\ k > 1 => links[k].first = links[k - 1].out
       /\ call.map = links[N - 1].out

\* C24: the join of N > 1 segments in crossfade mode (of a job, a preview or
\* a process-upload call) is a chain of exactly N - 1 crossfades: the first
\* takes segment files 0 and 1, each later link i takes the output of link
\* i - 1 and segment file i + 1, every label between links is produced once,
\* by the link before the one that consumes it, and the output written is that
\* of the last link.
C24_CrossfadeChain ==
    /\ \A j \in DOMAIN tasks :
          ( /\ tasks[j].pl # Undefined
            /\ tasks[j].pl.outputMode # "direct"
            /\ Len(tasks[j].pl.segments) > 1
            /\ tasks[j].pl.pc \in {"join", "readOutput"} )
             => LeftToRightChain(Len(tasks[j].pl.segments),
                                 tasks[j].pl.calls[Len(tasks[j].pl.calls)])
    /\ ( /\ preview.kind = "preview" /\ preview.pl # Undefined
         /\ Len(preview.pl.segments) > 1
         /\ preview.pl.pc \in {"join", "readOutput"} )
          => LeftToRightChain(Len(preview.pl.segments),
                              preview.pl.calls[Len(preview.pl.calls)])
    /\ ( /\ pu.kind = "process-upload" /\ pu.outputMode # "direct"
         /\ Len(pu.segments) > 1
         /\ pu.pc \in {"join", "readOutput"} )
          => LeftToRightChain(Len(pu.segments), pu.calls[Len(pu.calls)])

\* The crossfade of three segment files of a job is under way: two links.
C24_Witness ==
    \E j \in DOMAIN tasks :
        /\ tasks[j].pl # Undefined
        /\ tasks[j].pl.pc = "join"
        /\ tasks[j].pl.outputMode = "crossfade"
        /\ Len(tasks[j].pl.segmentFiles) = 3
        /\ Len(tasks[j].pl.calls[4].filter) = 2

\* What C25 says of a call of processSegmentsToBuffer: the segments ascend
\* without overlap, extract k cuts segment k into segment file k - 1, and the
\* join takes the segment files in the order of their indexes.
AscendingJoin(pl) ==
    LET N == Len(pl.segments)
    IN /\ \A k \in 1 .. N : pl.segments[k].startTime < pl.segments[k].endTime
       /\ \A k \in 1 .. N - 1 : pl.segments[k].endTime <= pl.segments[k + 1].startTime
       /\ \A k \in 1 .. Len(pl.calls) :
             IF k <= N
             THEN /\ pl.calls[k].op = "extract"
                  /\ pl.calls[k].index = k - 1
                  /\ pl.calls[k].startTime = pl.segments[k].startTime
                  /\ k > 1 => pl.calls[k - 1].startTime < pl.calls[k].startTime
             ELSE /\ Len(pl.calls[k].inputs) = N
                  /\ \A p \in 1 .. N : pl.calls[k].inputs[p] = p - 1

\* C25: the segments a job or a preview builds from an accepted marker list
\* are in ascending order of start and do not overlap, and the join takes
\* their files in that order, in whatever order the markers were submitted.
C25_AscendingSegments ==
    /\ \A j \in DOMAIN tasks : tasks[j].pl # Undefined => AscendingJoin(tasks[j].pl)
    /\ (preview.kind = "preview" /\ preview.pl # Undefined) => AscendingJoin(preview.pl)

\* The join of a job is under way whose markers were submitted with the
\* later pair first.
C25_Witness ==
    \E j \in DOMAIN tasks :
        /\ tasks[j].pl # Undefined
        /\ tasks[j].pl.pc = "join"
        /\ Len(tasks[j].markers) = 4
        /\ tasks[j].markers[1].timestamp > tasks[j].markers[3].timestamp
        /\ tasks[j].markers[2].timestamp > tasks[j].markers[4].timestamp

\* The lists a marker list turns into when its markers are put in another
\* order (each keeping its order field, or taking its new position as order),
\* and when its order fields are changed to other non-negative integers.
Rearrangements(markers) ==
    LET n == Len(markers)
    IN { [i \in 1 .. n |-> markers[p[i]]] : p \in Permutations(1 .. n) }
       \cup { [i \in 1 .. n |-> [timestamp |-> markers[p[i]].timestamp, order |-> i - 1]] :
                p \in Permutations(1 .. n) }
       \cup { [i \in 1 .. n |-> [timestamp |-> markers[i].timestamp, order |-> o[i]]] :
                o \in [1 .. n -> {0, MaxMarkers}] }

\* The handler has answered with an issue of the schema.
SchemaRejected(r) ==
    /\ r.pc = "responded"
    /\ r.res.status = 400
    /\ r.res.message # "Some markers exceed audio duration"

\* C26: whether the schema rejects a submitted or previewed marker list, and
\* the segments the executor builds from it, are those of every list that has
\* the same timestamps in another order or with other order fields.
C26_RankOnly ==
    /\ ( /\ req.kind = "process"
         /\ Len(req.body.markers) <= MaxMarkers
         /\ ValidJoinParameters(req.body) )
          => \A q \in Rearrangements(req.body.markers) :
                SchemaRejected(req) <=> markerListSchema(q) # << >>
    /\ ( /\ preview.kind = "preview"
         /\ Len(preview.body.markers) <= MaxMarkers
         /\ crossfadeDurationIssues(preview.body.crossfadeDuration) = << >> )
          => \A q \in Rearrangements(preview.body.markers) :
                /\ SchemaRejected(preview) <=> markerListSchema(q) # << >>
                /\ preview.pl # Undefined
                      => preview.pl.segments = BuildSegments(SortByTimestamp(q))
    /\ \A j \in DOMAIN tasks :
          (tasks[j].pl # Undefined /\ Len(tasks[j].markers) <= MaxMarkers)
             => \A q \in Rearrangements(tasks[j].markers) :
                   tasks[j].pl.segments = BuildSegments(SortByTimestamp(q))

\* A job runs on two segments whose four markers were submitted with the
\* later pair first and share a timestamp.
C26_Witness ==
    \E j \in DOMAIN tasks :
        /\ tasks[j].pl # Undefined
        /\ Len(tasks[j].pl.segments) = 2
        /\ tasks[j].markers[1].timestamp > tasks[j].markers[3].timestamp
        /\ tasks[j].pl.segments[1].endTime = tasks[j].pl.segments[2].startTime

\* The step is one of job j's own execution: a continuation of its task, or
\* the stretch of processAudioAsyncToMemory(j) up to its first await, which
\* runs inside the submit that created j.
OwnTaskStep(j) ==
    \/ turn = << "task", j >>
    \/ turn = << "req" >> /\ req.kind = "process" /\ req.pc = "created" /\ req.jobId = j

\* Only the fields a status update writes differ between the two records.
StatusUpdateOnly(old, new) ==
    /\ new.audioFileId = old.audioFileId
    /\ new.outputMode = old.outputMode
    /\ new.crossfadeDuration = old.crossfadeDuration
    /\ new.createdAt = old.createdAt

\* C27: a step changes the record of a job only if it is a step of that
\* job's own task, and then only by a status update; so polls, downloads,
\* marker saves, previews, other submits and other jobs' tasks leave the
\* record alone.  A poll, from its arrival to its handler's end, changes
\* nothing that is stored.
C27_OnlyOwnTaskUpdates ==
    [][/\ \A j \in DOMAIN processingJobs :
             /\ j \in DOMAIN processingJobs'
             /\ processingJobs'[j] # processingJobs[j]
                   => /\ OwnTaskStep(j)
                      /\ StatusUpdateOnly(processingJobs[j], processingJobs'[j])
       /\ (req.kind = "poll" \/ req'.kind = "poll")
             => UNCHANGED << audioFiles, audioFileData, processingJobs, jobOutputs,
                             savedMarkers, tasks, preview, pu, delivered, escaped >>
       /\ ( \/ req'.kind \in {"download", "markers"} /\ req' # req
            \/ preview' # preview )
             => processingJobs' = processingJobs]_vars

\* A poll is answered for a job that is processing while another job has
\* failed, markers are saved and a preview is in flight.
C27_Witness ==
    \E j, k \in DOMAIN processingJobs :
        /\ StatusOf(j) = "processing"
        /\ StatusOf(k) = "failed"
        /\ req.kind = "poll"
        /\ req.id = j
        /\ req.res.status = 200
        /\ savedMarkers # EmptyMap
        /\ preview.kind = "preview"
        /\ preview.pc = "running"

\* C28: no step of a preview request, from its arrival to its answer (a
\* success or an error) and its handler's end, creates a job, a job's task,
\* changes a job record or a stored output, or deletes stored asset bytes.
C28_PreviewTouchesNoJob ==
    [][preview' # preview
          => UNCHANGED << processingJobs, tasks, jobOutputs, audioFileData,
                          audioFiles, savedMarkers >>]_vars

\* A preview has been answered with its audio while one job on the asset is
\* processing and another has its output stored.
C28_Witness ==
    /\ preview.kind = "preview"
    /\ preview.pc = "responded"
    /\ preview.res.status = 200
    /\ \E j, k \in DOMAIN processingJobs :
          /\ StatusOf(j) = "processing"
          /\ processingJobs[j].audioFileId = preview.body.audioFileId
          /\ StatusOf(k) = "completed"
          /\ k \in DOMAIN jobOutputs

\* C30: in every state a job's completedAt is set exactly when its status is
\* completed: it is null in the record created and is left null by the updates
\* to processing and to failed.
C30_CompletedAtIffCompleted ==
    \A j \in DOMAIN processingJobs :
        processingJobs[j].completedAt # Null <=> StatusOf(j) = "completed"

\* One job is completed and stamped, another has failed and is not.
C30_Witness ==
    \E j, k \in DOMAIN processingJobs :
        /\ StatusOf(j) = "completed"
        /\ processingJobs[j].completedAt = "date"
        /\ StatusOf(k) = "failed"
        /\ processingJobs[k].completedAt = Null

\* C29: when the component, polling the job it submitted, reads an answer
\* whose status is completed or failed, it leaves the generating state:
\* isGenerating is false afterwards and no further poll is armed.
C29_GeneratingEnds ==
    [][( /\ client.pc = "polling"
         /\ client' # client
         /\ req.res.status = 200
         /\ req.res.job.status \in {"completed", "failed"} )
          => /\ ~client'.isGenerating
             /\ client'.pc # "polling"]_vars

\* The process handler is running a request it has not accepted (so far).
ProcessNotAccepted(r) ==
    /\ r.kind = "process"
    /\ r.pc # "created"
    /\ r.pc = "responded" => r.res.status # 200

\* C5: a step of the process handler on a request it rejects (a validation
\* failure or an unknown asset) changes neither the job registry, the job
\* outputs, the asset bytes nor any task, so no job (failed or other) exists
\* for it and no engine invocation is made.
C5_RejectChangesNothing ==
    [][ProcessNotAccepted(req')
         => UNCHANGED << processingJobs, jobOutputs, audioFileData, audioFiles, tasks >>]_vars

\* A submit was rejected while a job was running and another had finished.
C5_Witness ==
    /\ req.kind = "process"
    /\ req.pc = "responded"
    /\ req.res.status \in {400, 404}
    /\ \E j \in DOMAIN tasks : tasks[j].pc = "running"

\* C6: each of the three handlers that build segments answers a marker list
\* in which some pair (2k, 2k+1), in ascending order, has start >= end with a
\* 400, and makes no engine invocation for it: the process-upload handler,
\* whose validation comes behind two file operations, never invokes the engine
\* and never answers 200 for such a list.
C6_InvalidPairRejected ==
    /\ (req.kind = "process" /\ SomePairInvalid(req.body.markers))
          => (req.pc = "responded" /\ req.res.status = 400)
    /\ (preview.kind = "preview" /\ SomePairInvalid(preview.body.markers))
          => (preview.pc = "responded" /\ preview.res.status = 400
              /\ preview.pl = Undefined)
    /\ (pu.kind = "process-upload" /\ SomePairInvalid(pu.markers))
          => /\ pu.calls = << >>
             /\ pu.pc = "responded" => pu.res.status # 200

\* C7: only a completed job has a stored output, and a download response
\* carries output bytes only for a completed job.
C7_OutputOnlyWhenCompleted ==
    /\ \A j \in DOMAIN jobOutputs :
          j \in DOMAIN processingJobs /\ StatusOf(j) = "completed"
    /\ (req.kind = "download" /\ req.res.status = 200)
          => (req.id \in DOMAIN processingJobs /\ StatusOf(req.id) = "completed")

\* A download was refused for a failed job while another job's output waits.
C7_Witness ==
    /\ req.kind = "download"
    /\ req.res.status = 404
    /\ req.id \in DOMAIN tasks
    /\ StatusOf(req.id) = "failed"
    /\ \E k \in DOMAIN jobOutputs : k # req.id

\* C8: a completed job's output is there until a download returns it, that
\* download removes it, and so it is returned exactly once: a download of a
\* completed job answers with the output if none did before, else 404.
C8_DownloadOnce ==
    \A j \in DOMAIN processingJobs :
        /\ delivered[j] <= 1
        /\ StatusOf(j) = "completed" =>
              /\ delivered[j] = 0 <=> j \in DOMAIN jobOutputs
              /\ (req.kind = "download" /\ req.id = j) => delivered[j] = 1
        /\ StatusOf(j) # "completed" => delivered[j] = 0

\* A second download of a completed job was answered 404.
C8_Witness ==
    /\ req.kind = "download"
    /\ req.res.status = 404
    /\ req.id \in DOMAIN processingJobs
    /\ StatusOf(req.id) = "completed"
    /\ delivered[req.id] = 1

\* The task of job j ends its run of processSegmentsToBuffer, or ends before
\* it for want of source bytes, in this step.
TaskSettles(j) ==
    /\ j \in DOMAIN tasks
    /\ tasks[j].pc \in {"started", "running"}
    /\ tasks'[j].pc \notin {"started", "running"}

\* The source bytes were there and no file operation or engine run of job j
\* signalled an error.
RanClean(j) ==
    /\ tasks[j].pl # Undefined
    /\ tasks[j].pl.failedAt = "none"

\* C9: a job becomes completed only in the step that settles a task which had
\* its source bytes and whose planned engine steps and file operations all
\* succeeded; a task that settles after missing bytes, a failed mkdir or a
\* failed step leaves its job failed; no task lets an error escape.
C9_CompletedOnlyOnSuccess ==
    [][/\ escaped' = {}
       /\ \A j \in DOMAIN processingJobs :
             /\ (StatusOf(j) # "completed" /\ processingJobs'[j].status = "completed")
                   => /\ TaskSettles(j)
                      /\ RanClean(j)
                      /\ Len(tasks[j].pl.calls) = PlannedCalls(Len(tasks[j].pl.segments))
             /\ TaskSettles(j)
                   => processingJobs'[j].status =
                         IF RanClean(j) THEN "completed" ELSE "failed"]_vars

\* An engine run of one job has signalled an error and its task is about to
\* settle, after another job has failed.
C9_Witness ==
    \E j, k \in DOMAIN tasks :
        /\ tasks[j].pc = "running"
        /\ tasks[j].pl.pc = "returned"
        /\ tasks[j].pl.failedAt \in {"extract", "join"}
        /\ tasks[k].pc = "done"
        /\ StatusOf(k) = "failed"

\* The task of job k settles without any of its file operations or engine
\* runs having signalled an error.
SettlesUnfailed(k) ==
    /\ TaskSettles(k)
    /\ tasks[k].pl # Undefined => tasks[k].pl.failedAt = "none"

\* C10: a job submitted with the request of an earlier job, after that job
\* completed, and none of whose own steps failed, completes too, with an
\* output of the same duration.
C10_ResubmitCompletes ==
    [][\A j, k \in DOMAIN tasks :
          ( /\ j \in tasks[k].completedBefore
            /\ tasks[j].audioFileId = tasks[k].audioFileId
            /\ tasks[j].markers = tasks[k].markers
            /\ tasks[j].outputMode = tasks[k].outputMode
            /\ tasks[j].crossfadeDuration = tasks[k].crossfadeDuration
            /\ SettlesUnfailed(k) )
          => /\ processingJobs'[k].status = "completed"
             /\ tasks'[k].output = tasks[j].output]_vars

====
